---- MODULE Spec2Model ----
(***************************************************************************)
(* Model of the backend of Audio-visualizer-3d (FastAPI + MongoDB cache):  *)
(* the boundary validators, the Spotify upstream client, the analysis      *)
(* transformer, the analysis cache and the request handlers of             *)
(* /spotify/analysis/{track_id} and /spotify/features/{track_id}.          *)
(*                                                                         *)
(* Conventions.                                                            *)
(*  - A Python str is a sequence of runs [c |-> character, n |-> count]    *)
(*    (run-length form, adjacent runs carry different characters), so that *)
(*    a 500 character token stays a short value.                           *)
(*  - An optional Python value (None, or a dict key that may be missing)   *)
(*    is a sequence of length 0 (None / missing) or 1 (<<v>>).             *)
(*  - Floats are scaled integers: confidence and energy in tenths          *)
(*    (0.3 is 3, 0.5 is 5), the other numbers as they are.                 *)
(*  - Cache time is counted in weeks: the TTL of 60*60*24*7 s is 1.         *)
(***************************************************************************)
EXTENDS Integers, Sequences, FiniteSets, TLC

\* ------------------------------------------------------------------------
\* Bounds of the model
\* ------------------------------------------------------------------------
\* number of request slots (requests that may be in flight together)
NumReq == 2
\* last week the clock reaches
MaxTime == 2

\* ------------------------------------------------------------------------
\* State variables
\* ------------------------------------------------------------------------
VARIABLES
  req,             \* per request slot: the handler's position and locals
  analysis_cache,  \* the documents of db.analysis_cache
  now,             \* the clock: datetime.utcnow() in weeks for the cache,
                   \* time.time() in seconds for the in-memory stores
  lastPut,         \* history: per track id, what the last successful
                   \* cache_analysis stored
  rate_limit_store,  \* dependencies._rate_limit_store: key -> timestamps
  pending_states,    \* auth._pending_states: state -> timestamp
  events           \* history: the requests check_rate_limit accepted, the
                   \* states login issued, the exchanges callback made

vars ==
  <<req, analysis_cache, now, lastPut, rate_limit_store, pending_states, events>>

\* the in-memory stores of the process and their history
stores == <<rate_limit_store, pending_states, events>>

\* ------------------------------------------------------------------------
\* Python strings in run-length form
\* ------------------------------------------------------------------------
Run(c, n) == [c |-> c, n |-> n]

RECURSIVE StrLen(_)
\* len(s)
StrLen(s) == IF s = <<>> THEN 0 ELSE Head(s).n + StrLen(Tail(s))

\* representatives of the character classes the regular expressions tell apart
Lower == {"a", "b", "e", "r"}
Upper == {"Z", "B"}
Digit == {"7"}
Alnum == Lower \cup Upper \cup Digit
\* characters str.strip() removes
Whitespace == {" ", "\n"}

Front(s) == SubSeq(s, 1, Len(s) - 1)
Last(s) == s[Len(s)]

RECURSIVE lstrip(_)
lstrip(s) == IF s # <<>> /\ Head(s).c \in Whitespace THEN lstrip(Tail(s)) ELSE s

RECURSIVE rstrip(_)
rstrip(s) == IF s # <<>> /\ Last(s).c \in Whitespace THEN rstrip(Front(s)) ELSE s

\* str.lstrip() in the place of str.strip()
strip_leading(s) == lstrip(s)

\* str.strip(): removes leading and trailing whitespace
strip(s) == rstrip(lstrip(s))

\* every character of s is in class
AllIn(s, class) == \A i \in 1..Len(s) : s[i].c \in class

\* Python's `$` matches at the end of the string and also just before a
\* newline that ends the string: the text the pattern's body has to cover.
DollarBodies(s) ==
  {s} \cup (IF s # <<>> /\ Last(s) = Run("\n", 1) THEN {Front(s)} ELSE {})

\* re.match(r'^[A-Za-z0-9]{22}$', s)
TrackIdLen == 22
MatchTrackId(s) ==
  \E b \in DollarBodies(s) : AllIn(b, Alnum) /\ StrLen(b) = TrackIdLen

\* re.match(r'^[A-Za-z0-9_\-]+$', s)
TokenChars == Alnum \cup {"_", "-"}
MatchToken(s) ==
  \E b \in DollarBodies(s) : AllIn(b, TokenChars) /\ StrLen(b) >= 1

RECURSIVE Take(_, _)
\* s[:k]
Take(s, k) ==
  IF k <= 0 \/ s = <<>> THEN <<>>
  ELSE IF Head(s).n <= k THEN <<Head(s)>> \o Take(Tail(s), k - Head(s).n)
  ELSE <<Run(Head(s).c, k)>>

RECURSIVE Drop(_, _)
\* s[k:]
Drop(s, k) ==
  IF k <= 0 \/ s = <<>> THEN s
  ELSE IF Head(s).n <= k THEN Drop(Tail(s), k - Head(s).n)
  ELSE <<Run(Head(s).c, Head(s).n - k)>> \o Tail(s)

\* s.startswith(p)
startswith(s, p) == Take(s, StrLen(p)) = p

\* the literal "Bearer "
BearerPrefix ==
  <<Run("B", 1), Run("e", 1), Run("a", 1), Run("r", 1), Run("e", 1),
    Run("r", 1), Run(" ", 1)>>
BearerPrefixLen == 7

\* ------------------------------------------------------------------------
\* Optional values and call results
\* ------------------------------------------------------------------------
None == <<>>
Some(v) == <<v>>
\* d.get(k, default) on a dict whose keys are optional fields
Get(d, k, default) == IF d[k] # None THEN d[k][1] ELSE default

\* the result of a call: a returned value, or a raised exception
Return(v) == [raised |-> FALSE, value |-> v, exc |-> <<>>]
Raise(e) == [raised |-> TRUE, value |-> <<>>, exc |-> <<e>>]

\* ------------------------------------------------------------------------
\* exceptions.py: HTTPException subclasses (type, status_code, detail)
\* ------------------------------------------------------------------------
HTTP_400_BAD_REQUEST == 400
HTTP_401_UNAUTHORIZED == 401
HTTP_404_NOT_FOUND == 404
HTTP_429_TOO_MANY_REQUESTS == 429
HTTP_502_BAD_GATEWAY == 502

HTTPExc(type, status, detail) ==
  [type |-> type, http |-> TRUE, status_code |-> status, detail |-> detail,
   retry_after |-> None]
\* any exception that is no HTTPException (KeyError, AttributeError, ...)
PlainExc(type) ==
  [type |-> type, http |-> FALSE, status_code |-> 0, detail |-> "", retry_after |-> None]

SpotifyAPIError(detail) == HTTPExc("SpotifyAPIError", HTTP_502_BAD_GATEWAY, detail)
SpotifyAPIErrorDefault == SpotifyAPIError("Spotify service temporarily unavailable")
SpotifyAuthError(detail) == HTTPExc("SpotifyAuthError", HTTP_401_UNAUTHORIZED, detail)
\* headers={"Retry-After": str(retry_after)}, raised with retry_after=window
RateLimitWindow == 60
RateLimitError ==
  [HTTPExc("RateLimitError", HTTP_429_TOO_MANY_REQUESTS,
           "Rate limit exceeded. Please slow down.")
     EXCEPT !.retry_after = Some(RateLimitWindow)]
InvalidTokenError ==
  HTTPExc("InvalidTokenError", HTTP_401_UNAUTHORIZED, "Invalid or expired token")
InvalidTrackError ==
  HTTPExc("InvalidTrackError", HTTP_400_BAD_REQUEST, "Invalid track ID format")
NotFoundError(resource) ==
  HTTPExc("NotFoundError", HTTP_404_NOT_FOUND, resource \o " not found")

\* ------------------------------------------------------------------------
\* dependencies.py and routers/spotify.py: validators
\* ------------------------------------------------------------------------
TokenMinLen == 50
TokenMaxLen == 500

\* validate_spotify_token_format(token)
validate_spotify_token_format(token) ==
  IF token = <<>> THEN FALSE
  ELSE IF StrLen(token) < TokenMinLen \/ StrLen(token) > TokenMaxLen THEN FALSE
  ELSE IF ~MatchToken(token) THEN FALSE
  ELSE TRUE

\* get_spotify_token without the call of validate_spotify_token_format
get_spotify_token_unchecked(authorization) ==
  IF authorization = None \/ authorization = Some(<<>>) THEN Raise(InvalidTokenError)
  ELSE IF ~startswith(authorization[1], BearerPrefix) THEN Raise(InvalidTokenError)
  ELSE Return(Drop(authorization[1], BearerPrefixLen))

\* get_spotify_token(authorization): authorization is None or Some(header value)
get_spotify_token(authorization) ==
  IF authorization = None \/ authorization = Some(<<>>) THEN Raise(InvalidTokenError)
  ELSE IF ~startswith(authorization[1], BearerPrefix) THEN Raise(InvalidTokenError)
  ELSE LET token == Drop(authorization[1], BearerPrefixLen)
       IN  IF ~validate_spotify_token_format(token) THEN Raise(InvalidTokenError)
           ELSE Return(token)

ValueError(msg) == [PlainExc("ValueError") EXCEPT !.detail = msg]

\* dependencies.validate_track_id(track_id)
validate_track_id(track_id) ==
  IF track_id = <<>> THEN Raise(ValueError("Track ID required"))
  ELSE LET t == strip(track_id)
       IN  IF ~MatchTrackId(t) THEN Raise(ValueError("Invalid track ID format"))
           ELSE Return(t)

\* schemas.TrackIdParam.validate_track_id(v)
TrackIdParam_validate_track_id(v) ==
  LET t == strip(v)
  IN  IF ~MatchTrackId(t) THEN Raise(ValueError("Invalid Spotify track ID"))
      ELSE Return(t)

\* validate_track_id_param without the re.match check
validate_track_id_param_unchecked(track_id) == Return(strip(track_id))

\* validate_track_id_param(track_id)
validate_track_id_param(track_id) ==
  LET t == strip(track_id)
  IN  IF ~MatchTrackId(t) THEN Raise(InvalidTrackError) ELSE Return(t)

\* ------------------------------------------------------------------------
\* services/spotify_service.py: the upstream client
\* ------------------------------------------------------------------------
\* What the transport gives one HTTP call: a response (status, the header
\* Retry-After, a body that response.json() parses to `json` or cannot
\* parse), a timeout, or another network failure.
Response(status, json) ==
  [kind |-> "response", status |-> status, json |-> json, parses |-> TRUE,
   retry_after |-> None]
\* a response whose body is no JSON document
ResponseNoJson(status) ==
  [kind |-> "response", status |-> status, json |-> None, parses |-> FALSE,
   retry_after |-> None]
\* a 429 response with the header Retry-After (None: without it)
TooManyRequests(retry_after) ==
  [kind |-> "response", status |-> 429, json |-> None, parses |-> TRUE,
   retry_after |-> retry_after]
Timeout ==
  [kind |-> "timeout", status |-> 0, json |-> None, parses |-> FALSE,
   retry_after |-> None]
NetworkError ==
  [kind |-> "neterror", status |-> 0, json |-> None, parses |-> FALSE,
   retry_after |-> None]

\* SpotifyService._make_request: the transport result t to a returned
\* payload (None, or Some(dict)) or a raised exception
make_request(t) ==
  IF t.kind = "timeout" THEN Raise(SpotifyAPIError("Spotify is not responding. Try again."))
  ELSE IF t.kind = "neterror" THEN Raise(SpotifyAPIErrorDefault)
  ELSE IF t.status = 204 THEN Return(None)
  ELSE IF t.status = 401 THEN Raise(SpotifyAuthError("Token expired. Please re-authenticate."))
  ELSE IF t.status = 404 THEN Raise(NotFoundError("Track"))
  ELSE IF t.status = 429
       THEN \* the header is read for the log line only
            LET retry_after == Get(t, "retry_after", "60")
            IN  Raise(SpotifyAPIError("Rate limited by Spotify. Try again shortly."))
  ELSE IF t.status >= 500 THEN Raise(SpotifyAPIErrorDefault)
  ELSE IF t.status >= 400 THEN Raise(SpotifyAPIError("Request failed"))
  ELSE IF ~t.parses THEN Raise(PlainExc("JSONDecodeError"))
  ELSE Return(t.json)

\* ------------------------------------------------------------------------
\* main.py: exception handlers, the response a raised exception becomes
\* ------------------------------------------------------------------------
\* HTTPException subclasses answer with their status_code and detail
\* (spotify_api_error_handler, spotify_auth_error_handler, FastAPI's own
\* handler for the others); anything else reaches generic_error_handler.
\* a catch-all handler that answers with the exception's type
ErrorResponse_leaking(e) ==
  IF e.http THEN [status |-> e.status_code, detail |-> e.detail, body |-> None]
  ELSE [status |-> 500, detail |-> e.type, body |-> None]
ErrorResponse(e) ==
  IF e.http THEN [status |-> e.status_code, detail |-> e.detail, body |-> None]
  ELSE [status |-> 500, detail |-> "An unexpected error occurred", body |-> None]

\* a 200 response carrying a response model
OkResponse(model) == [status |-> 200, detail |-> "", body |-> Some(model)]

\* FastAPI's answer to a path parameter that fails Path(min_length, max_length)
ValidationErrorResponse == [status |-> 422, detail |-> "validation error", body |-> None]
\* Starlette's answer when no route matches the path
NoRouteResponse == [status |-> 404, detail |-> "Not Found", body |-> None]

\* ------------------------------------------------------------------------
\* models/schemas.py: the response models and their field constraints
\* ------------------------------------------------------------------------
ConfidenceMax == 10
VectorLen == 12
KeyMax == 11

\* BeatData: start >= 0, duration > 0, 0 <= confidence <= 1
ValidBeat(b) ==
  b.start >= 0 /\ b.duration > 0 /\ b.confidence >= 0 /\ b.confidence <= ConfidenceMax

\* SegmentData: start >= 0, duration > 0, pitches and timbre of exactly 12
ValidSegment(g) ==
  /\ g.start >= 0 /\ g.duration > 0
  /\ Len(g.pitches) = VectorLen /\ Len(g.timbre) = VectorLen

\* SectionData: start >= 0, duration > 0, tempo > 0, -1 <= key <= 11, mode 0 or 1
ValidSection(c) ==
  /\ c.start >= 0 /\ c.duration > 0 /\ c.tempo > 0
  /\ c.key >= -1 /\ c.key <= KeyMax /\ c.mode >= 0 /\ c.mode <= 1

\* AudioFeatures: tempo > 0, energy, danceability and valence in [0, 1]
ValidAudioFeatures(f) ==
  /\ f.tempo > 0
  /\ \A k \in {"energy", "danceability", "valence"} : f[k] >= 0 /\ f[k] <= ConfidenceMax

\* a pydantic constructor: the model, or ValidationError
Construct(fields, valid) ==
  IF valid THEN Return(fields) ELSE Raise(PlainExc("ValidationError"))

\* the results of applying a constructor to every element of a list, as the
\* list comprehension does: the list, or the first exception raised
Collect(results) ==
  IF \E i \in 1..Len(results) : results[i].raised
  THEN LET first == CHOOSE i \in 1..Len(results) :
                      /\ results[i].raised
                      /\ \A j \in 1..(i - 1) : ~results[j].raised
       IN  results[first]
  ELSE Return([i \in 1..Len(results) |-> results[i].value])

\* AnalysisResponse.model_dump(): the model as a plain dict
model_dump(m) ==
  [track_id |-> m.track_id, duration |-> m.duration, tempo |-> m.tempo,
   energy |-> m.energy, beats |-> m.beats, segments |-> m.segments,
   sections |-> m.sections]

\* AnalysisResponse(**d): validates the nested records again
AnalysisResponse(d) ==
  Construct([cls |-> "AnalysisResponse", track_id |-> d.track_id,
             duration |-> d.duration, tempo |-> d.tempo, energy |-> d.energy,
             beats |-> d.beats, segments |-> d.segments, sections |-> d.sections],
            /\ \A i \in 1..Len(d.beats) : ValidBeat(d.beats[i])
            /\ \A i \in 1..Len(d.segments) : ValidSegment(d.segments[i])
            /\ \A i \in 1..Len(d.sections) : ValidSection(d.sections[i]))

\* ------------------------------------------------------------------------
\* routers/spotify.py: process_analysis, the transformer
\* ------------------------------------------------------------------------
\* beats are kept when confidence > 0.3
BeatThreshold == 3
\* raw_segments[:2000]
SegmentCap == 2000
DefaultTempo == 120
DefaultEnergy == 5
DefaultLoudnessSegment == -60
DefaultLoudnessSection == -10
Zeros12 == [i \in 1..VectorLen |-> 0]

Min(a, b) == IF a < b THEN a ELSE b

\* d[k] for each k of keys in turn: KeyError at the first missing one
MissingKey(d, keys) == \E i \in 1..Len(keys) : d[keys[i]] = None

\* BeatData(start=b["start"], duration=b["duration"], confidence=b["confidence"])
MakeBeat(b) ==
  IF MissingKey(b, <<"start", "duration", "confidence">>) THEN Raise(PlainExc("KeyError"))
  ELSE LET f == [start |-> b.start[1], duration |-> b.duration[1],
                 confidence |-> b.confidence[1]]
       IN  Construct(f, ValidBeat(f))

\* SegmentData(start=s["start"], duration=s["duration"], loudness=..., ...)
MakeSegment(g) ==
  IF MissingKey(g, <<"start", "duration">>) THEN Raise(PlainExc("KeyError"))
  ELSE LET f == [start |-> g.start[1], duration |-> g.duration[1],
                 loudness |-> Get(g, "loudness_start",
                                  Get(g, "loudness", DefaultLoudnessSegment)),
                 pitches |-> Get(g, "pitches", Zeros12),
                 timbre |-> Get(g, "timbre", Zeros12)]
       IN  Construct(f, ValidSegment(f))

\* SectionData(start=s["start"], duration=s["duration"], tempo=..., ...)
MakeSection(c) ==
  IF MissingKey(c, <<"start", "duration">>) THEN Raise(PlainExc("KeyError"))
  ELSE LET f == [start |-> c.start[1], duration |-> c.duration[1],
                 tempo |-> Get(c, "tempo", DefaultTempo), key |-> Get(c, "key", -1),
                 mode |-> Get(c, "mode", 0),
                 loudness |-> Get(c, "loudness", DefaultLoudnessSection)]
       IN  Construct(f, ValidSection(f))

EmptyTrackInfo == [duration |-> None, tempo |-> None]

\* a beat filter that keeps a confidence of exactly 0.3
KeepBeat_inclusive(b) == Get(b, "confidence", 0) >= BeatThreshold

\* a beat filter whose threshold moves with the clock
KeepBeat_drifting(b) == Get(b, "confidence", 0) > BeatThreshold + now

\* `if b.get("confidence", 0) > 0.3`
KeepBeat(b) == Get(b, "confidence", 0) > BeatThreshold

\* no cap on the segments
CapSegments_all(raw_segments) == raw_segments

\* raw_segments[:2000]
CapSegments(raw_segments) ==
  SubSeq(raw_segments, 1, Min(Len(raw_segments), SegmentCap))

\* the track tempo of the analysis before the tempo of the features
TempoOf_track_first(features, track_info) ==
  Get(track_info, "tempo", Get(features, "tempo", DefaultTempo))

\* features.get("tempo", track_info.get("tempo", 120))
TempoOf(features, track_info) ==
  Get(features, "tempo", Get(track_info, "tempo", DefaultTempo))

\* process_analysis(track_id, analysis, features): analysis is a dict,
\* features is None or Some(dict)
process_analysis(track_id, analysis, features) ==
  LET raw_beats == Get(analysis, "beats", <<>>)
      kept == SelectSeq(raw_beats, KeepBeat)
      beats == Collect([i \in 1..Len(kept) |-> MakeBeat(kept[i])])
      raw_segments == Get(analysis, "segments", <<>>)
      capped == CapSegments(raw_segments)
      segments == Collect([i \in 1..Len(capped) |-> MakeSegment(capped[i])])
      raw_sections == Get(analysis, "sections", <<>>)
      sections == Collect([i \in 1..Len(raw_sections) |-> MakeSection(raw_sections[i])])
      track_info == Get(analysis, "track", EmptyTrackInfo)
  IN  IF beats.raised THEN beats
      ELSE IF segments.raised THEN segments
      ELSE IF sections.raised THEN sections
      ELSE IF features = None THEN Raise(PlainExc("AttributeError"))
      ELSE Return([cls |-> "AnalysisResponse",
                   track_id |-> track_id,
                   duration |-> Get(track_info, "duration", 0),
                   tempo |-> TempoOf(features[1], track_info),
                   energy |-> Get(features[1], "energy", DefaultEnergy),
                   beats |-> beats.value,
                   segments |-> segments.value,
                   sections |-> sections.value])

\* ------------------------------------------------------------------------
\* db/mongodb.py: the analysis_cache collection
\* ------------------------------------------------------------------------
\* expireAfterSeconds=60*60*24*7 of the TTL index on cached_at, in weeks
CacheTTL == 1

\* a document of analysis_cache
Doc(track_id, analysis, cached_at) ==
  [track_id |-> track_id, analysis |-> analysis, cached_at |-> cached_at]

\* the documents the filter {"track_id": track_id} matches
Matching(coll, track_id) == {d \in coll : d.track_id = track_id}

\* an upsert with "$setOnInsert" in place of "$set": a matching document is
\* left as it is
update_one_upsert_keep_first(coll, track_id, analysis, cached_at) ==
  IF Matching(coll, track_id) = {}
  THEN coll \cup {Doc(track_id, analysis, cached_at)}
  ELSE coll

\* update_one with "$set" of track_id and analysis only: a matching document
\* keeps its cached_at
update_one_upsert_keep_age(coll, track_id, analysis, cached_at) ==
  IF Matching(coll, track_id) = {}
  THEN coll \cup {Doc(track_id, analysis, cached_at)}
  ELSE LET d == CHOOSE d \in Matching(coll, track_id) : TRUE
       IN  (coll \ {d}) \cup {Doc(track_id, analysis, d.cached_at)}

\* update_one({"track_id": id}, {"$set": {track_id, analysis, cached_at}},
\* upsert=True): one matching document has the three fields set, or, when
\* none matches, a document with them is inserted
update_one_upsert(coll, track_id, analysis, cached_at) ==
  IF Matching(coll, track_id) = {}
  THEN coll \cup {Doc(track_id, analysis, cached_at)}
  ELSE LET d == CHOOSE d \in Matching(coll, track_id) : TRUE
       IN  (coll \ {d}) \cup {Doc(track_id, analysis, cached_at)}

\* the TTL index: a document is due for removal once cached_at is
\* expireAfterSeconds in the past
Expired(d, t) == t - d.cached_at >= CacheTTL

\* a TTL pass with expireAfterSeconds=0: every document whose cached_at is
\* not in the future goes
ttl_pass_early(coll, t) == {d \in coll : t - d.cached_at < 0}

\* one pass of MongoDB's TTL monitor over the collection
ttl_pass(coll, t) == {d \in coll : ~Expired(d, t)}

\* get_cached_analysis that never finds a document
get_cached_analysis_never(coll, track_id, fails) == {Return(None)}

\* get_cached_analysis(track_id): the ways the call may end. find_one hands
\* back a matching document (Some(doc["analysis"]) is returned) or none
\* (None); when the store fails the except branch returns None.
get_cached_analysis(coll, track_id, fails) ==
  IF fails THEN {Return(None)}
  ELSE IF Matching(coll, track_id) = {} THEN {Return(None)}
  ELSE {Return(Some(d.analysis)) : d \in Matching(coll, track_id)}

\* cache_analysis without its try/except: the store's exception propagates
cache_analysis_unguarded(coll, track_id, analysis, cached_at, fails) ==
  IF fails THEN Raise(PlainExc("PyMongoError"))
  ELSE Return([ok |-> TRUE,
               coll |-> update_one_upsert(coll, track_id, analysis, cached_at)])

\* a store that files every analysis under one key
cache_analysis_one_key(coll, track_id, analysis, cached_at, fails) ==
  IF fails THEN Return([ok |-> FALSE, coll |-> coll])
  ELSE Return([ok |-> TRUE,
               coll |-> update_one_upsert(coll, <<Run("a", 22)>>, analysis, cached_at)])

\* cache_analysis(track_id, analysis): returns True with the collection
\* updated; when the store fails the except branch returns False and the
\* collection is as it was
cache_analysis(coll, track_id, analysis, cached_at, fails) ==
  IF fails THEN Return([ok |-> FALSE, coll |-> coll])
  ELSE Return([ok |-> TRUE,
               coll |-> update_one_upsert(coll, track_id, analysis, cached_at)])

\* ------------------------------------------------------------------------
\* Inputs: path values, Authorization headers, upstream payloads
\* ------------------------------------------------------------------------
IdA == <<Run("a", 22)>>
IdB == <<Run("b", 21), Run("7", 1)>>
ValidPaths == {IdA, IdB}
InvalidPaths ==
  { <<>>,                                  \* empty
    <<Run("a", 21)>>,                      \* too short
    <<Run("a", 23)>>,                      \* too long
    <<Run("a", 21), Run("-", 1)>>,         \* 22 characters, wrong alphabet
    <<Run(" ", 1), Run("a", 22)>>,         \* a valid id padded to 23
    <<Run(" ", 1), Run("a", 21)>>,         \* 22 characters that trim to 21
    <<Run("a", 21), Run("\n", 1)>> }       \* 22 characters ending in a newline
Paths == ValidPaths \cup InvalidPaths

LiveToken == <<Run("a", 60)>>
\* a well-formed token the provider no longer accepts
ExpiredToken == <<Run("b", 60)>>
Bearer(token) == BearerPrefix \o token
MalformedHeaders ==
  { Some(<<>>),                                       \* empty header
    Some(<<Run("B", 1), Run("a", 60)>>),              \* no "Bearer " prefix
    Some(Bearer(<<Run("a", 49)>>)),                   \* token too short
    Some(Bearer(<<Run("a", 59), Run("!", 1)>>)) }     \* character outside the set
WellFormedHeaders == {Some(Bearer(LiveToken)), Some(Bearer(ExpiredToken))}
Headers == {None} \cup MalformedHeaders \cup WellFormedHeaders

Beat(start, duration, confidence) ==
  [start |-> start, duration |-> duration, confidence |-> confidence]
Segment(start, duration, loudness_start, loudness, pitches, timbre) ==
  [start |-> start, duration |-> duration, loudness_start |-> loudness_start,
   loudness |-> loudness, pitches |-> pitches, timbre |-> timbre]
Section(start, duration, tempo, key, mode, loudness) ==
  [start |-> start, duration |-> duration, tempo |-> tempo, key |-> key,
   mode |-> mode, loudness |-> loudness]
AnalysisDict(beats, segments, sections, track, other) ==
  [beats |-> beats, segments |-> segments, sections |-> sections, track |-> track,
   other |-> other]
FeaturesDict(tempo, energy, danceability, valence, other) ==
  [tempo |-> tempo, energy |-> energy, danceability |-> danceability,
   valence |-> valence, other |-> other]

\* `not d` for a dict: no key at all
EmptyAnalysis(d) ==
  d.beats = None /\ d.segments = None /\ d.sections = None /\ d.track = None /\ ~d.other
EmptyFeatures(d) ==
  /\ d.tempo = None /\ d.energy = None /\ d.danceability = None /\ d.valence = None
  /\ ~d.other

\* a complete analysis: one beat under the threshold, one above it
AnalysisFull ==
  AnalysisDict(
    Some(<<Beat(Some(0), Some(1), Some(1)), Beat(Some(1), Some(1), Some(9))>>),
    Some(<<Segment(Some(0), Some(2), Some(-20), None, Some(Zeros12), Some(Zeros12))>>),
    Some(<<Section(Some(0), Some(30), Some(100), Some(5), Some(1), Some(-8))>>),
    Some([duration |-> Some(200), tempo |-> Some(100)]),
    TRUE)
\* an analysis with none of the keys the transformer reads
AnalysisBare == AnalysisDict(None, None, None, None, TRUE)
\* {}
AnalysisEmpty == AnalysisDict(None, None, None, None, FALSE)
\* a beat above the threshold without "start"
AnalysisMalformed ==
  AnalysisDict(Some(<<Beat(None, Some(1), Some(9))>>), None, None, None, TRUE)
AnalysisPayloads == {AnalysisFull, AnalysisBare, AnalysisEmpty, AnalysisMalformed}

FeaturesFull == FeaturesDict(Some(90), Some(8), Some(7), Some(6), TRUE)
\* features without tempo and energy
FeaturesBare == FeaturesDict(None, None, None, None, TRUE)
\* {}
FeaturesEmpty == FeaturesDict(None, None, None, None, FALSE)
FeaturesPayloads == {FeaturesFull, FeaturesBare, FeaturesEmpty}

\* statuses the provider answers with besides 200 and 204
ErrorStatuses == {401, 403, 404, 429, 500, 503}
Failures ==
  {Response(st, None) : st \in ErrorStatuses}
    \cup {Timeout, NetworkError, ResponseNoJson(200)}
\* what one call may meet: one of `failures`, or a payload or 204; the
\* provider never answers an expired token with a payload
Transports(token, payloads, failures) ==
  failures \cup
    (IF token = ExpiredToken THEN {}
     ELSE {Response(200, Some(d)) : d \in payloads} \cup {Response(204, None)})

\* ------------------------------------------------------------------------
\* Request slots and the initial state
\* ------------------------------------------------------------------------
Reqs == 1..NumReq

NoResponse == [status |-> 0, detail |-> "", body |-> None]
\* no upstream call made yet
NoTransport ==
  [kind |-> "", status |-> 0, json |-> None, parses |-> FALSE, retry_after |-> None]

\* a slot no request has used yet
Idle ==
  [pc |-> "idle", endpoint |-> "", path |-> <<>>, authorization |-> None,
   limited |-> FALSE, track_id |-> <<>>, token |-> <<>>, cached |-> None,
   analysis |-> None, features |-> None, processed |-> None, cached_at |-> 0,
   response |-> NoTransport, readFailed |-> FALSE, writeFailed |-> FALSE,
   prior |-> {}, replaced |-> {}, log |-> <<>>, resp |-> NoResponse,
   validator |-> "", client |-> "", state |-> None, code |-> None, error |-> None]

\* the process has just started: both module-level dicts are empty
NoStores ==
  /\ rate_limit_store = <<>>
  /\ pending_states = <<>>
  /\ events = <<>>

Init ==
  /\ req = [r \in Reqs |-> Idle]
  /\ analysis_cache = {}
  /\ now = 0
  /\ lastPut = {}
  /\ NoStores

\* the handler returns or raises: the response is sent
Finish(q, resp) == [q EXCEPT !.pc = "done", !.resp = resp]

\* the "{track_id}" segment of the route matches one or more characters
RouteMatches(path) == StrLen(path) >= 1

\* Path(..., min_length=22, max_length=22)
PathParamOk(path) == StrLen(path) >= TrackIdLen /\ StrLen(path) <= TrackIdLen

\* A request arrives at GET /spotify/<endpoint>/<path> and runs up to its
\* first await: routing, the dependencies in declaration order
\* (check_rate_limit, get_spotify_token), the path parameter's validation,
\* then the handler's validate_track_id_param and the first I/O call.
\* `limited` is check_rate_limit's verdict, which depends on the client's
\* traffic within the last minute.
Arrive(q0, endpoint, path, authorization, limited) ==
  LET q == [q0 EXCEPT !.pc = "running", !.endpoint = endpoint, !.path = path,
                      !.authorization = authorization, !.limited = limited]
      tok == get_spotify_token(authorization)
      tid == validate_track_id_param(path)
  IN  IF ~RouteMatches(path) THEN Finish(q, NoRouteResponse)
      ELSE IF limited THEN Finish(q, ErrorResponse(RateLimitError))
      ELSE IF tok.raised THEN Finish(q, ErrorResponse(tok.exc[1]))
      ELSE IF ~PathParamOk(path) THEN Finish(q, ValidationErrorResponse)
      ELSE IF tid.raised THEN Finish(q, ErrorResponse(tid.exc[1]))
      ELSE IF endpoint = "analysis"
           THEN [q EXCEPT !.pc = "CacheLookup", !.token = tok.value,
                          !.track_id = tid.value,
                          !.log = <<"cache.find_one">>]
           ELSE [q EXCEPT !.pc = "FetchFeatures", !.token = tok.value,
                          !.track_id = tid.value,
                          !.log = <<"upstream.audio-features">>]

\* `prior` (history) keeps, until the cache has answered, what the last
\* completed store for the track was when the request arrived
Start(r, endpoint, path, authorization, limited) ==
  /\ req[r].pc \in {"idle", "done"}
  /\ LET q == Arrive(Idle, endpoint, path, authorization, limited)
     IN  req' = [req EXCEPT ![r] = [q EXCEPT !.prior = Matching(lastPut, q.track_id)]]
  /\ UNCHANGED <<analysis_cache, now, lastPut, stores>>

\* get_analysis after `cached = await get_cached_analysis(track_id)`
AfterLookup(q, res, fails) ==
  LET q1 == [q EXCEPT !.cached = res.value, !.readFailed = fails, !.prior = {}]
  IN  IF res.raised THEN Finish(q1, ErrorResponse(res.exc[1]))
      ELSE IF res.value # None
      THEN LET m == AnalysisResponse(res.value[1])
           IN  IF m.raised THEN Finish(q1, ErrorResponse(m.exc[1]))
               ELSE Finish(q1, OkResponse(m.value))
      ELSE [q1 EXCEPT !.pc = "FetchAnalysis",
                      !.log = Append(@, "upstream.audio-analysis")]

CacheLookup(r, fails) ==
  /\ req[r].pc = "CacheLookup"
  /\ \E res \in get_cached_analysis(analysis_cache, req[r].track_id, fails) :
       req' = [req EXCEPT ![r] = AfterLookup(req[r], res, fails)]
  /\ UNCHANGED <<analysis_cache, now, lastPut, stores>>

\* a client that repeats a failed audio-analysis call until it succeeds
AfterAnalysis_persistent(q, res) ==
  IF res.raised THEN q
  ELSE [q EXCEPT !.analysis = res.value, !.pc = "FetchFeatures",
                 !.log = Append(@, "upstream.audio-features")]

\* both upstream calls gathered with return_exceptions=True: a failed
\* audio-analysis call leaves analysis empty and the features call is made
AfterAnalysis_gathered(q, res) ==
  [q EXCEPT !.analysis = res.value, !.pc = "FetchFeatures",
            !.log = Append(@, "upstream.audio-features")]

\* a client that repeats a failed audio-analysis call once
AfterAnalysis_retrying(q, res) ==
  IF res.raised /\ Len(SelectSeq(q.log, LAMBDA c : c = "upstream.audio-analysis")) < 2
  THEN [q EXCEPT !.log = Append(@, "upstream.audio-analysis")]
  ELSE IF res.raised THEN Finish(q, ErrorResponse(res.exc[1]))
  ELSE [q EXCEPT !.analysis = res.value, !.pc = "FetchFeatures",
                 !.log = Append(@, "upstream.audio-features")]

\* get_analysis after `analysis = await service.get_audio_analysis(track_id)`
AfterAnalysis(q, res) ==
  IF res.raised THEN Finish(q, ErrorResponse(res.exc[1]))
  ELSE [q EXCEPT !.analysis = res.value, !.pc = "FetchFeatures",
                 !.log = Append(@, "upstream.audio-features")]

\* `response` keeps what the transport gave the request's last upstream call
FetchAnalysis(r, t) ==
  /\ req[r].pc = "FetchAnalysis"
  /\ req' = [req EXCEPT ![r] =
               AfterAnalysis([req[r] EXCEPT !.response = t], make_request(t))]
  /\ UNCHANGED <<analysis_cache, now, lastPut, stores>>

\* get_analysis after `features = await service.get_audio_features(track_id)`:
\* the analysis check, process_analysis, and the call of cache_analysis,
\* which reads datetime.utcnow() for cached_at
AfterFeatures(q, res, t) ==
  IF res.raised THEN Finish(q, ErrorResponse(res.exc[1]))
  ELSE LET q1 == [q EXCEPT !.features = res.value]
       IN  IF q.analysis = None \/ EmptyAnalysis(q.analysis[1])
           THEN Finish(q1, ErrorResponse(NotFoundError("Track analysis")))
           ELSE LET p == process_analysis(q.track_id, q.analysis[1], res.value)
                IN  IF p.raised THEN Finish(q1, ErrorResponse(p.exc[1]))
                    ELSE [q1 EXCEPT !.processed = Some(p.value), !.cached_at = t,
                                    !.pc = "CacheWrite",
                                    !.log = Append(@, "cache.update_one")]

\* get_features after `features = await service.get_audio_features(track_id)`
FeaturesResult(q, res) ==
  IF res.raised THEN Finish(q, ErrorResponse(res.exc[1]))
  ELSE LET q1 == [q EXCEPT !.features = res.value]
       IN  IF res.value = None \/ EmptyFeatures(res.value[1])
           THEN Finish(q1, ErrorResponse(NotFoundError("Track features")))
           ELSE LET f == [cls |-> "AudioFeatures",
                          tempo |-> Get(res.value[1], "tempo", DefaultTempo),
                          energy |-> Get(res.value[1], "energy", DefaultEnergy),
                          danceability |-> Get(res.value[1], "danceability", DefaultEnergy),
                          valence |-> Get(res.value[1], "valence", DefaultEnergy)]
                    m == Construct(f, ValidAudioFeatures(f))
                IN  IF m.raised THEN Finish(q1, ErrorResponse(m.exc[1]))
                    ELSE Finish(q1, OkResponse(m.value))

FetchFeatures(r, t) ==
  /\ req[r].pc = "FetchFeatures"
  /\ LET q == [req[r] EXCEPT !.response = t]
     IN  req' = [req EXCEPT ![r] =
                   IF q.endpoint = "analysis"
                   THEN AfterFeatures(q, make_request(t), now)
                   ELSE FeaturesResult(q, make_request(t))]
  /\ UNCHANGED <<analysis_cache, now, lastPut, stores>>

\* what lastPut records of a store: the collection's own upsert
Remember(puts, track_id, analysis, cached_at) ==
  {d \in puts : d.track_id # track_id} \cup {Doc(track_id, analysis, cached_at)}

\* a handler whose response fails after the store
AfterWrite_failing(q, res, fails) ==
  Finish([q EXCEPT !.writeFailed = fails], ErrorResponse(PlainExc("ResponseValidationError")))

\* get_analysis after `await cache_analysis(track_id, processed.model_dump())`:
\* `return processed`. `replaced` (history) keeps the document the store
\* replaced.
AfterWrite(q, res, fails) ==
  LET q1 == [q EXCEPT !.writeFailed = fails]
  IN  IF res.raised THEN Finish(q1, ErrorResponse(res.exc[1]))
      ELSE Finish(q1, OkResponse(q.processed[1]))

CacheWrite(r, fails) ==
  /\ req[r].pc = "CacheWrite"
  /\ LET q == req[r]
         dump == model_dump(q.processed[1])
         res == cache_analysis(analysis_cache, q.track_id, dump, q.cached_at, fails)
     IN  /\ analysis_cache' = IF res.raised THEN analysis_cache ELSE res.value.coll
         /\ lastPut' = IF fails THEN lastPut
                       ELSE Remember(lastPut, q.track_id, dump, q.cached_at)
         /\ req' = [req EXCEPT ![r] =
                      AfterWrite([q EXCEPT !.replaced =
                                    IF fails THEN {}
                                    ELSE Matching(analysis_cache, q.track_id)],
                                 res, fails)]
  /\ UNCHANGED <<now, stores>>

\* time passes
Tick ==
  /\ now < MaxTime
  /\ now' = now + 1
  /\ UNCHANGED <<req, analysis_cache, lastPut, stores>>

\* MongoDB's TTL monitor runs in the background (every 60 s) and removes
\* the expired documents it finds
TTLMonitor ==
  /\ analysis_cache' = ttl_pass(analysis_cache, now)
  /\ analysis_cache' # analysis_cache
  /\ UNCHANGED <<req, now, lastPut, stores>>

Endpoints == {"analysis", "features"}

\* the requests a client may send and what their calls may meet
Traffic(endpoints, paths, headers, limits, analyses, features, failures) ==
  [endpoints |-> endpoints, paths |-> paths, headers |-> headers,
   limits |-> limits, analyses |-> analyses, features |-> features,
   failures |-> failures]

\* one request slot under traffic w
Handle(r, w) ==
  \/ \E e \in w.endpoints, p \in w.paths, h \in w.headers, l \in w.limits :
       Start(r, e, p, h, l)
  \/ \E fails \in BOOLEAN : CacheLookup(r, fails)
  \/ \E t \in Transports(req[r].token, w.analyses, w.failures) : FetchAnalysis(r, t)
  \/ \E t \in Transports(req[r].token, w.features, w.failures) : FetchFeatures(r, t)
  \/ \E fails \in BOOLEAN : CacheWrite(r, fails)

\* Spec: requests served one at a time, for two tracks, with every outcome
\* of the upstream calls and of the store
PipelineTraffic ==
  Traffic({"analysis"}, ValidPaths \cup {<<Run("a", 21), Run("-", 1)>>},
          {None, Some(Bearer(LiveToken)), Some(Bearer(ExpiredToken))},
          BOOLEAN, {AnalysisFull, AnalysisEmpty, AnalysisMalformed},
          FeaturesPayloads, Failures)

Next == Handle(1, PipelineTraffic) \/ Tick \/ TTLMonitor

Spec == Init /\ [][Next]_vars

\* SpecBoundary: requests served one at a time, with every path value and
\* Authorization header, for one track; the provider answers 401 to an
\* expired token
BoundaryTraffic ==
  Traffic(Endpoints, {IdA} \cup InvalidPaths, Headers, BOOLEAN,
          {AnalysisFull}, {FeaturesFull}, {Response(401, None)})

NextBoundary == Handle(1, BoundaryTraffic) \/ Tick \/ TTLMonitor

SpecBoundary == Init /\ [][NextBoundary]_vars

\* SpecConc: NumReq requests in flight together for the same track
ConcTraffic ==
  Traffic({"analysis"}, {IdA}, {Some(Bearer(LiveToken))}, {FALSE},
          {AnalysisFull}, {FeaturesFull, FeaturesBare}, {Response(503, None)})

NextConc == (\E r \in Reqs : Handle(r, ConcTraffic)) \/ Tick \/ TTLMonitor

SpecConc == Init /\ [][NextConc]_vars

\* ------------------------------------------------------------------------
\* The store's upsert in two phases (SpecUpsert)
\* ------------------------------------------------------------------------
\* create_index("track_id", unique=True): a document whose track_id is
\* already in the collection is refused
insert_one_no_index(coll, doc) == Return(coll \cup {doc})

insert_one(coll, doc) ==
  IF \E d \in coll : d.track_id = doc.track_id
  THEN Raise(PlainExc("DuplicateKeyError"))
  ELSE Return(coll \cup {doc})

\* update_one(..., upsert=True), query phase: the server looks for a document
\* matching {"track_id": track_id}. A document found is updated in the same
\* step; when none is found the server goes on to insert one, and other
\* operations may run before it does. A store failure ends cache_analysis
\* in its except branch.
UpsertQuery(r, fails) ==
  /\ req[r].pc = "CacheWrite"
  /\ LET q == req[r]
         dump == model_dump(q.processed[1])
         found == Matching(analysis_cache, q.track_id)
     IN  IF fails \/ found # {}
         THEN LET res == cache_analysis(analysis_cache, q.track_id, dump,
                                        q.cached_at, fails)
              IN  /\ analysis_cache' = res.value.coll
                  /\ lastPut' = IF fails THEN lastPut
                                ELSE Remember(lastPut, q.track_id, dump, q.cached_at)
                  /\ req' = [req EXCEPT ![r] =
                               AfterWrite([q EXCEPT !.replaced =
                                             IF fails THEN {} ELSE found],
                                          res, fails)]
         ELSE /\ req' = [req EXCEPT ![r] = [q EXCEPT !.pc = "CacheInsert"]]
              /\ UNCHANGED <<analysis_cache, lastPut>>
  /\ UNCHANGED <<now, stores>>

\* update_one(..., upsert=True), insert phase: the unique index on track_id
\* refuses the document when another operation has inserted one for the
\* track since the query phase. The server then either runs the operation
\* again, now as an update of that document (retried), or reports
\* DuplicateKeyError, which cache_analysis's except branch turns into False.
UpsertInsert(r, retried) ==
  /\ req[r].pc = "CacheInsert"
  /\ LET q == req[r]
         dump == model_dump(q.processed[1])
         ins == insert_one(analysis_cache, Doc(q.track_id, dump, q.cached_at))
         refused == ins.raised /\ ~retried
         res == cache_analysis(analysis_cache, q.track_id, dump, q.cached_at, refused)
     IN  /\ retried => ins.raised
         /\ analysis_cache' = IF ins.raised THEN res.value.coll ELSE ins.value
         /\ lastPut' = IF refused THEN lastPut
                       ELSE Remember(lastPut, q.track_id, dump, q.cached_at)
         /\ req' = [req EXCEPT ![r] = AfterWrite(q, res, refused)]
  /\ UNCHANGED <<now, stores>>

\* one request slot under traffic w, the store's upsert in its two phases
HandleUpsert(r, w) ==
  \/ \E e \in w.endpoints, p \in w.paths, h \in w.headers, l \in w.limits :
       Start(r, e, p, h, l)
  \/ \E fails \in BOOLEAN : CacheLookup(r, fails)
  \/ \E t \in Transports(req[r].token, w.analyses, w.failures) : FetchAnalysis(r, t)
  \/ \E t \in Transports(req[r].token, w.features, w.failures) : FetchFeatures(r, t)
  \/ \E fails \in BOOLEAN : UpsertQuery(r, fails)
  \/ \E retried \in BOOLEAN : UpsertInsert(r, retried)

\* SpecUpsert: NumReq requests in flight together for the same track, the
\* writes of the store interleaved at the grain of the server's phases
NextUpsert == (\E r \in Reqs : HandleUpsert(r, ConcTraffic)) \/ Tick \/ TTLMonitor

SpecUpsert == Init /\ [][NextUpsert]_vars

\* ------------------------------------------------------------------------
\* The transformer on raw payloads (SpecTransform)
\* ------------------------------------------------------------------------
\* longest raw beat list
MaxBeats == 3

\* the confidence a raw beat may carry: none, 0.3, 0.4, 0.9
Confidences == {None, Some(BeatThreshold), Some(BeatThreshold + 1), Some(9)}

\* raw beat lists: every list of up to MaxBeats beats over Confidences, the
\* i-th beat starting at i
BeatLists ==
  UNION {{[i \in 1..n |-> Beat(Some(i), Some(1), c[i])] : c \in [1..n -> Confidences]} :
           n \in 0..MaxBeats}
\* beats above the threshold that lack a field or break a constraint of
\* BeatData, and one below the threshold that lacks a field
MalformedBeatLists ==
  { <<Beat(None, Some(1), Some(9))>>, <<Beat(Some(0), None, Some(9))>>,
    <<Beat(Some(0), Some(0), Some(9))>>, <<Beat(Some(0), Some(1), Some(11))>>,
    <<Beat(None, None, Some(1))>> }

\* n segments with start and duration only, the i-th starting at i
Segments(n) == [i \in 1..n |-> Segment(Some(i), Some(1), None, None, None, None)]
SegmentLists == {Segments(n) : n \in {0, 2, SegmentCap, SegmentCap + 1}}
ShortVector == <<0, 0, 0>>
MalformedSegmentLists ==
  { <<Segment(None, Some(1), None, None, None, None)>>,
    <<Segment(Some(0), None, None, None, None, None)>>,
    <<Segment(Some(0), Some(0), None, None, None, None)>>,
    <<Segment(Some(0), Some(1), None, Some(-30), Some(ShortVector), None)>>,
    <<Segment(Some(0), Some(1), Some(-20), Some(-30), None, Some(ShortVector))>> }

SectionLists ==
  { <<>>,
    <<Section(Some(0), Some(30), None, None, None, None)>>,
    <<Section(Some(0), Some(30), Some(100), Some(5), Some(1), Some(-8)),
      Section(Some(30), Some(20), Some(90), Some(-1), Some(0), None)>> }
MalformedSectionLists ==
  { <<Section(None, Some(30), None, None, None, None)>>,
    <<Section(Some(0), None, None, None, None, None)>>,
    <<Section(Some(0), Some(-1), None, None, None, None)>>,
    <<Section(Some(0), Some(30), Some(0), None, None, None)>> }

TrackInfos ==
  { None, Some([duration |-> None, tempo |-> None]),
    Some([duration |-> Some(200), tempo |-> None]),
    Some([duration |-> None, tempo |-> Some(100)]),
    Some([duration |-> Some(200), tempo |-> Some(100)]) }

\* raw analysis payloads, varied in one part at a time
WellFormedAnalyses ==
  {AnalysisDict(Some(b), None, None, None, TRUE) : b \in BeatLists}
    \cup {AnalysisDict(None, Some(g), None, None, TRUE) : g \in SegmentLists}
    \cup {AnalysisDict(None, None, Some(c), None, TRUE) : c \in SectionLists}
    \cup {AnalysisDict(None, None, None, t, TRUE) : t \in TrackInfos}
MalformedAnalyses ==
  {AnalysisDict(Some(b), None, None, None, TRUE) : b \in MalformedBeatLists}
    \cup {AnalysisDict(None, Some(g), None, None, TRUE) : g \in MalformedSegmentLists}
    \cup {AnalysisDict(None, None, Some(c), None, TRUE) : c \in MalformedSectionLists}
RawAnalyses == WellFormedAnalyses \cup MalformedAnalyses

RawFeatures ==
  { FeaturesFull, FeaturesBare, FeaturesEmpty,
    FeaturesDict(Some(90), None, None, None, TRUE),
    FeaturesDict(None, Some(8), None, None, TRUE) }

\* a request of get_analysis that missed the cache and has fetched the
\* analysis payload a
Fetched(a) ==
  LET q0 == Arrive(Idle, "analysis", IdA, Some(Bearer(LiveToken)), FALSE)
      q1 == AfterLookup(q0, Return(None), FALSE)
      t == Response(200, Some(a))
  IN  AfterAnalysis([q1 EXCEPT !.response = t], make_request(t))

InitTransform ==
  /\ req \in {[r \in Reqs |-> IF r = 1 THEN Fetched(a) ELSE Idle] : a \in RawAnalyses}
  /\ analysis_cache = {}
  /\ now = 0
  /\ lastPut = {}
  /\ NoStores

\* SpecTransform: one request from its audio-features call on, that is the
\* transform, the cache write and the return, for every raw payload
FeaturesTransports == {Response(200, Some(f)) : f \in RawFeatures}

NextTransform ==
  \/ \E t \in FeaturesTransports : FetchFeatures(1, t)
  \/ \E fails \in BOOLEAN : CacheWrite(1, fails)
  \/ Tick
  \/ TTLMonitor

SpecTransform == InitTransform /\ [][NextTransform]_vars

\* ------------------------------------------------------------------------
\* The track id validators on raw inputs (SpecValidate)
\* ------------------------------------------------------------------------
\* s followed by t, in run-length form
Join(s, t) ==
  IF s # <<>> /\ t # <<>> /\ Last(s).c = Head(t).c
  THEN Front(s) \o <<Run(Last(s).c, Last(s).n + Head(t).n)>> \o Tail(t)
  ELSE s \o t

\* whitespace around an input
Paddings ==
  {<<>>, <<Run(" ", 1)>>, <<Run("\n", 1)>>, <<Run(" ", 2), Run("\n", 1)>>}
\* what stands between the whitespace: nothing, 21 to 23 characters of the
\* alphabet, 22 characters with one outside it or with whitespace inside
Bodies ==
  { <<>>, <<Run("a", 21)>>, <<Run("a", 22)>>, <<Run("a", 23)>>,
    <<Run("Z", 10), Run("7", 1), Run("b", 11)>>,
    <<Run("a", 21), Run("-", 1)>>, <<Run("_", 1), Run("a", 21)>>,
    <<Run("a", 10), Run(" ", 1), Run("a", 11)>>,
    <<Run("a", 11), Run("\n", 1), Run("a", 11)>> }
TrackIdInputs ==
  {Join(Join(lead, body), trail) : lead \in Paddings, body \in Bodies, trail \in Paddings}

\* the three validators of the repository
Validators == {"validate_track_id", "validate_track_id_param", "TrackIdParam"}
ValidatorCall(v, track_id) ==
  IF v = "validate_track_id" THEN validate_track_id(track_id)
  ELSE IF v = "validate_track_id_param" THEN validate_track_id_param(track_id)
  ELSE TrackIdParam_validate_track_id(track_id)

InitValidate ==
  /\ req \in {[r \in Reqs |-> IF r = 1 THEN [Idle EXCEPT !.path = p] ELSE Idle] :
                p \in TrackIdInputs}
  /\ analysis_cache = {}
  /\ now = 0
  /\ lastPut = {}
  /\ NoStores

\* validator v is called with the input: the value it returns is kept in
\* track_id, the exception it raises in resp as the handlers of main.py
\* render it
Validate(r, v) ==
  /\ req[r].path \in TrackIdInputs
  /\ LET res == ValidatorCall(v, req[r].path)
         q == [Idle EXCEPT !.path = req[r].path, !.validator = v]
     IN  req' = [req EXCEPT ![r] =
                   IF res.raised THEN Finish(q, ErrorResponse(res.exc[1]))
                   ELSE [Finish(q, NoResponse) EXCEPT !.track_id = res.value]]
  /\ UNCHANGED <<analysis_cache, now, lastPut, stores>>

\* SpecValidate: the validators called in any order on every input
NextValidate == \E v \in Validators : Validate(1, v)

SpecValidate == InitValidate /\ [][NextValidate]_vars

\* ------------------------------------------------------------------------
\* The token check on raw Authorization headers (SpecToken)
\* ------------------------------------------------------------------------
\* n times the character c
Repeat(c, n) == IF n = 0 THEN <<>> ELSE <<Run(c, n)>>

\* tokens around the length bounds, with characters in and outside the
\* set at the start and at the end
TokenHeads ==
  {<<>>, <<Run("_", 1)>>, <<Run("-", 1)>>, <<Run("!", 1)>>, <<Run("\n", 1)>>,
   <<Run("Z", 1), Run("7", 1)>>}
TokenTails ==
  {<<>>, <<Run("-", 1)>>, <<Run("!", 1)>>, <<Run("\n", 1)>>, <<Run("\n", 2)>>,
   <<Run(" ", 1)>>}
TokenFills ==
  {0, TokenMinLen - 2, TokenMinLen - 1, TokenMinLen, TokenMaxLen - 2,
   TokenMaxLen - 1, TokenMaxLen, TokenMaxLen + 1}
TokenInputs ==
  {Join(Join(h, Repeat("a", n)), t) : h \in TokenHeads, n \in TokenFills, t \in TokenTails}
HeaderInputs == Headers \cup {Some(Bearer(t)) : t \in TokenInputs}

InitToken ==
  /\ req \in {[r \in Reqs |-> IF r = 1 THEN [Idle EXCEPT !.authorization = h] ELSE Idle] :
                h \in HeaderInputs}
  /\ analysis_cache = {}
  /\ now = 0
  /\ lastPut = {}
  /\ NoStores

\* the dependency get_spotify_token is resolved for the request's header:
\* the token it returns is kept in token, the exception it raises is
\* answered
Authenticate(r) ==
  /\ req[r].pc = "idle"
  /\ LET res == get_spotify_token(req[r].authorization)
         q == [req[r] EXCEPT !.pc = "running"]
     IN  req' = [req EXCEPT ![r] =
                   IF res.raised THEN Finish(q, ErrorResponse(res.exc[1]))
                   ELSE [Finish(q, NoResponse) EXCEPT !.token = res.value]]
  /\ UNCHANGED <<analysis_cache, now, lastPut, stores>>

\* SpecToken: get_spotify_token on every header
NextToken == Authenticate(1)

SpecToken == InitToken /\ [][NextToken]_vars

\* ------------------------------------------------------------------------
\* The upstream client on every kind of transport result (SpecClient)
\* ------------------------------------------------------------------------
\* statuses of every class: 1xx, 2xx, 3xx, 4xx, 5xx
ClientErrorStatuses == {400, 401, 403, 404, 418, 429, 500, 502, 503, 599}
OtherStatuses == {100, 200, 201, 301}
\* values of the header Retry-After: absent, a number of seconds, no number
RetryAfterHeaders == {None, Some("30"), Some("abc")}
ClientFailures ==
  {Response(st, None) : st \in ClientErrorStatuses}
    \cup {ResponseNoJson(st) : st \in OtherStatuses}
    \cup {TooManyRequests(h) : h \in RetryAfterHeaders}
    \cup {Timeout, NetworkError}

\* SpecClient: both endpoints for one track and one token, every transport
\* result for each upstream call
ClientTraffic ==
  Traffic(Endpoints, {IdA}, {Some(Bearer(LiveToken))}, {FALSE},
          {AnalysisFull, AnalysisEmpty}, {FeaturesFull, FeaturesEmpty}, ClientFailures)

NextClient == Handle(1, ClientTraffic)

SpecClient == Init /\ [][NextClient]_vars

\* ------------------------------------------------------------------------
\* The pipeline with calls that end (SpecLive)
\* ------------------------------------------------------------------------
\* the awaited call of the request in slot r ends: the cache answers or
\* fails within the store's timeout, the upstream call answers or ends
\* with httpx.TimeoutException after REQUEST_TIMEOUT, and the event loop
\* resumes the handler
Resume(r, w) ==
  \/ \E fails \in BOOLEAN : CacheLookup(r, fails)
  \/ \E t \in Transports(req[r].token, w.analyses, w.failures) : FetchAnalysis(r, t)
  \/ \E t \in Transports(req[r].token, w.features, w.failures) : FetchFeatures(r, t)
  \/ \E fails \in BOOLEAN : CacheWrite(r, fails)

\* SpecLive: the requests of Spec, every awaited call ending
SpecLive == Spec /\ \A r \in Reqs : WF_vars(Resume(r, PipelineTraffic))

\* ------------------------------------------------------------------------
\* dependencies.py: the rate limiter (SpecRate)
\* ------------------------------------------------------------------------
\* settings.rate_limit_per_minute, set to a small limit
rate_limit_per_minute == 2
\* the clock of SpecRate advances in steps of RateStep seconds up to RateClock
RateStep == 30
RateClock == 120

\* rate_limit_key(request): the hashed client addresses
ClientKeys == {"k1", "k2"}

\* a dict with one more entry
SetItem(d, k, v) == [x \in DOMAIN d \cup {k} |-> IF x = k THEN v ELSE d[x]]

\* a limiter that admits while the window holds no more than the limit
check_rate_limit_inclusive(store, key, t) ==
  LET kept == IF key \in DOMAIN store
              THEN SelectSeq(store[key], LAMBDA x : t - x < RateLimitWindow)
              ELSE <<>>
  IN  IF Len(kept) > rate_limit_per_minute
      THEN [result |-> Raise(RateLimitError), store |-> SetItem(store, key, kept)]
      ELSE [result |-> Return(None), store |-> SetItem(store, key, Append(kept, t))]

\* a limiter that also records the requests it rejects
check_rate_limit_recording(store, key, t) ==
  LET kept == IF key \in DOMAIN store
              THEN SelectSeq(store[key], LAMBDA x : t - x < RateLimitWindow)
              ELSE <<>>
  IN  IF Len(kept) >= rate_limit_per_minute
      THEN [result |-> Raise(RateLimitError), store |-> SetItem(store, key, Append(kept, t))]
      ELSE [result |-> Return(None), store |-> SetItem(store, key, Append(kept, t))]

\* check_rate_limit for the request of client `key` at time t: the result
\* (None, or RateLimitError raised) and the store it leaves. The function
\* has no await, so the event loop runs it in one piece.
check_rate_limit(store, key, t) ==
  LET kept == IF key \in DOMAIN store
              THEN SelectSeq(store[key], LAMBDA x : t - x < RateLimitWindow)
              ELSE <<>>
  IN  IF Len(kept) >= rate_limit_per_minute
      THEN [result |-> Raise(RateLimitError), store |-> SetItem(store, key, kept)]
      ELSE [result |-> Return(None), store |-> SetItem(store, key, Append(kept, t))]

\* an event of the history
Event(op, key, at) == [op |-> op, key |-> key, at |-> at]

\* a request of client `key` reaches a route that depends on RateLimited:
\* it is answered 429 or goes on to the handler (not followed here)
CheckRateLimit(r, key) ==
  /\ req[r].pc \in {"idle", "done"}
  /\ LET out == check_rate_limit(rate_limit_store, key, now)
         q == [Idle EXCEPT !.pc = "running", !.client = key,
                           !.limited = out.result.raised]
     IN  /\ rate_limit_store' = out.store
         /\ events' = IF out.result.raised THEN events
                      ELSE Append(events, Event("accepted", key, now))
         /\ req' = [req EXCEPT ![r] =
                      IF out.result.raised
                      THEN Finish(q, ErrorResponse(out.result.exc[1]))
                      ELSE Finish(q, NoResponse)]
  /\ UNCHANGED <<analysis_cache, now, lastPut, pending_states>>

\* time passes, d seconds up to the bound
Pass(d, bound) ==
  /\ now + d <= bound
  /\ now' = now + d
  /\ UNCHANGED <<req, analysis_cache, lastPut, stores>>

\* SpecRate: two clients, requests in any order and at any pace
NextRate ==
  \/ \E key \in ClientKeys : CheckRateLimit(1, key)
  \/ Pass(RateStep, RateClock)

SpecRate == Init /\ [][NextRate]_vars

\* ------------------------------------------------------------------------
\* routers/auth.py: the OAuth login and callback (SpecAuth)
\* ------------------------------------------------------------------------
\* re.match(r'^[A-Za-z0-9_\-]{16,64}$', state)
StateMinLen == 16
StateMaxLen == 64
MatchState(s) ==
  \E b \in DollarBodies(s) :
    AllIn(b, TokenChars) /\ StrLen(b) >= StateMinLen /\ StrLen(b) <= StateMaxLen

\* validate_state_param(state): the state, or None
validate_state_param(state) ==
  IF state = None THEN None
  ELSE IF ~MatchState(state[1]) THEN None
  ELSE state

\* Query(None, min_length=10, max_length=500)
CodeMinLen == 10
CodeMaxLen == 500
CodeParamOk(code) ==
  code = None \/ (StrLen(code[1]) >= CodeMinLen /\ StrLen(code[1]) <= CodeMaxLen)

\* a RedirectResponse (302); `to` names the target: Spotify's authorize
\* page, the frontend with ?error=<to>, or the frontend with the token
Redirect(to) == [status |-> 302, detail |-> to, body |-> None]

\* login: the state is stored with the time, then the states older than
\* 10 minutes are deleted
StateMaxAge == 600
store_state(pending, state, t) ==
  LET added == SetItem(pending, state, t)
      cutoff == t - StateMaxAge
  IN  [s \in {x \in DOMAIN added : ~(added[x] < cutoff)} |-> added[s]]

\* a callback that leaves the state it used in the store
take_state_kept(pending, state) == pending

\* callback: del _pending_states[validated_state]
take_state(pending, state) == [s \in DOMAIN pending \ {state} |-> pending[s]]

\* the JSON document of the token endpoint; each key may be absent
TokenData(error, access_token, expires_in) ==
  [error |-> error, access_token |-> access_token, expires_in |-> expires_in]

\* exchange_code_for_token(code) when the transport gives t
exchange_code_for_token(code, t) ==
  IF code = <<>> \/ StrLen(code) < CodeMinLen
  THEN Raise(SpotifyAuthError("Invalid authorization code"))
  ELSE IF t.kind \in {"timeout", "neterror"} THEN Raise(SpotifyAPIErrorDefault)
  ELSE IF ~t.parses THEN Raise(PlainExc("JSONDecodeError"))
  ELSE LET data == t.json[1]
       IN  IF data.error # None
           THEN Raise(SpotifyAuthError("Authorization failed. Please try again."))
           ELSE IF data.access_token = None
           THEN Raise(SpotifyAuthError("Authentication failed"))
           ELSE Return(data)

\* secrets.token_urlsafe(32): 43 characters of [A-Za-z0-9_-]
StateA == <<Run("a", 43)>>
StateB == <<Run("b", 42), Run("-", 1)>>
StateTokens == {StateA, StateB}
\* the states login has issued so far (history)
Issued == {events[i].key : i \in {j \in 1..Len(events) : events[j].op = "issued"}}

\* the query parameters a callback may carry
StateParams ==
  {None, Some(StateA), Some(StateB),
   Some(Join(StateA, <<Run("\n", 1)>>)),   \* a newline after an issued state
   Some(<<Run("a", 15)>>),                 \* too short
   Some(<<Run("a", 42), Run("!", 1)>>)}    \* wrong alphabet
GoodCode == Some(<<Run("c", 10)>>)
ShortCode == Some(<<Run("c", 9)>>)
\* the callbacks: every state parameter with a code, and an issued state
\* with a short code, without code, with an error
CallbackParams ==
  {[code |-> GoodCode, state |-> s, error |-> None] : s \in StateParams}
    \cup {[code |-> c, state |-> Some(StateA), error |-> e] :
             c \in {None, ShortCode, GoodCode}, e \in {None, Some("access_denied")}}
\* what the token endpoint may answer
TokenTransports ==
  {Response(200, Some(TokenData(None, Some("BQ"), Some(3600)))),
   Response(200, Some(TokenData(None, Some("BQ"), None))),
   Response(400, Some(TokenData(Some("invalid_grant"), None, None))),
   ResponseNoJson(503), NetworkError}

\* GET /auth/login from client `key`: check_rate_limit, then the handler.
\* The state is a fresh random token (256 bits): one not issued before.
Login(r, key) ==
  /\ req[r].pc \in {"idle", "done"}
  /\ \E state \in StateTokens \ Issued :
       LET out == check_rate_limit(rate_limit_store, key, now)
           q == [Idle EXCEPT !.pc = "running", !.endpoint = "login",
                             !.client = key, !.limited = out.result.raised]
       IN  /\ rate_limit_store' = out.store
           /\ IF out.result.raised
              THEN /\ req' = [req EXCEPT ![r] =
                                Finish(q, ErrorResponse(out.result.exc[1]))]
                   /\ UNCHANGED <<pending_states, events>>
              ELSE /\ pending_states' = store_state(pending_states, state, now)
                   /\ events' = Append(events, Event("issued", state, now))
                   /\ req' = [req EXCEPT ![r] =
                                Finish([q EXCEPT !.state = Some(state)],
                                       Redirect("authorize"))]
  /\ UNCHANGED <<analysis_cache, now, lastPut>>

\* GET /auth/callback?code=..&state=..&error=.. up to its await: the
\* query validation, the three checks, the removal of the state and the
\* call of exchange_code_for_token
Callback(r, code, state, error) ==
  /\ req[r].pc \in {"idle", "done"}
  /\ LET q == [Idle EXCEPT !.pc = "running", !.endpoint = "callback",
                           !.code = code, !.state = state, !.error = error]
         validated_state == validate_state_param(state)
     IN  IF ~CodeParamOk(code)
         THEN /\ req' = [req EXCEPT ![r] = Finish(q, ValidationErrorResponse)]
              /\ UNCHANGED <<pending_states, events>>
         ELSE IF error # None /\ error[1] # ""
         THEN /\ req' = [req EXCEPT ![r] = Finish(q, Redirect("auth_denied"))]
              /\ UNCHANGED <<pending_states, events>>
         ELSE IF code = None \/ code[1] = <<>>
         THEN /\ req' = [req EXCEPT ![r] = Finish(q, Redirect("missing_code"))]
              /\ UNCHANGED <<pending_states, events>>
         ELSE IF validated_state = None
                   \/ validated_state[1] \notin DOMAIN pending_states
         THEN /\ req' = [req EXCEPT ![r] = Finish(q, Redirect("invalid_state"))]
              /\ UNCHANGED <<pending_states, events>>
         ELSE /\ pending_states' = take_state(pending_states, validated_state[1])
              /\ events' = Append(events, Event("exchanged", validated_state[1], now))
              /\ req' = [req EXCEPT ![r] =
                           [q EXCEPT !.pc = "Exchange", !.log = <<"upstream.token">>]]
  /\ UNCHANGED <<analysis_cache, now, lastPut, rate_limit_store>>

\* callback after `token_data = await exchange_code_for_token(code)`
Exchange(r, t) ==
  /\ req[r].pc = "Exchange"
  /\ LET q == [req[r] EXCEPT !.response = t]
         res == exchange_code_for_token(q.code[1], t)
     IN  req' = [req EXCEPT ![r] =
                   IF res.raised
                   THEN IF res.exc[1].type = "SpotifyAuthError"
                        THEN Finish(q, Redirect("token_exchange_failed"))
                        ELSE Finish(q, ErrorResponse(res.exc[1]))
                   ELSE IF res.value.expires_in = None
                        THEN Finish(q, ErrorResponse(PlainExc("KeyError")))
                        ELSE Finish(q, Redirect("access_token"))]
  /\ UNCHANGED <<analysis_cache, now, lastPut, stores>>

\* the clock of SpecAuth advances in steps of AuthStep seconds up to AuthClock
AuthStep == 400
AuthClock == 800

\* SpecAuth: logins and callbacks of one client in any order, callbacks
\* overlapping at the token exchange
NextAuth ==
  \/ Login(1, "k1")
  \/ \E r \in Reqs, p \in CallbackParams : Callback(r, p.code, p.state, p.error)
  \/ \E r \in Reqs, t \in TokenTransports : Exchange(r, t)
  \/ Pass(AuthStep, AuthClock)

SpecAuth == Init /\ [][NextAuth]_vars

\* ========================================================================
\* Claims
\* ========================================================================
\* the request in slot r has been answered
Done(r) == req[r].pc = "done"
\* the request in slot r leaves the CacheLookup step in this step
LookupStep(r) == req[r].pc = "CacheLookup" /\ req'[r].pc # "CacheLookup"

\* C1: get_cached_analysis never returns an entry whose cached_at is older
\* than the TTL, also when the TTL monitor has not removed the document yet:
\* whenever a lookup returns a value, it is the value of a document of the
\* track whose age is at most the TTL.
C1_NoExpiredHit ==
  [][\A r \in Reqs :
       (LookupStep(r) /\ req'[r].cached # None) =>
         \E d \in Matching(analysis_cache, req[r].track_id) :
           /\ Some(d.analysis) = req'[r].cached
           /\ now - d.cached_at <= CacheTTL]_vars

\* the analysis the request fetched is a payload the transformer accepts
AnalysisUsable(q) ==
  /\ q.analysis # None
  /\ ~EmptyAnalysis(q.analysis[1])
  /\ ~process_analysis(q.track_id, q.analysis[1], Some(FeaturesEmpty)).raised
\* the features call of the request failed or brought nothing
FeaturesFailed(q) ==
  /\ q.response.kind # ""
  /\ \/ q.response.kind # "response"
     \/ q.response.status \in ErrorStatuses \cup {204}
     \/ ~q.response.parses
     \/ EmptyFeatures(q.response.json[1])

\* C2: on a cache miss with a usable analysis payload, a failed or empty
\* audio-features fetch does not abort the request: it ends with 200 and an
\* AnalysisResult whose tempo is the analysis track tempo (or 120) and whose
\* energy is 0.5.
C2_FeaturesFailureTolerated ==
  \A r \in Reqs :
    LET q == req[r]
    IN  (Done(r) /\ q.endpoint = "analysis" /\ AnalysisUsable(q) /\ FeaturesFailed(q)) =>
          /\ q.resp.status = 200
          /\ q.resp.body # None
          /\ q.resp.body[1].tempo =
               Get(Get(q.analysis[1], "track", EmptyTrackInfo), "tempo", DefaultTempo)
          /\ q.resp.body[1].energy = DefaultEnergy

\* the status the client is to get for an upstream failure: 401 for 401
\* (AuthExpired), 404 for 404 (NotFound), 429 for 429 (RateLimited), 502 for
\* 5xx, other 4xx, a timeout and any other network failure
StatusFor(t) ==
  IF t.kind # "response" THEN 502
  ELSE IF t.status \in {401, 404, 429} THEN t.status
  ELSE 502
\* the request's last upstream call met an error classification
UpstreamFailed(q) ==
  \/ q.response.kind \in {"timeout", "neterror"}
  \/ q.response.kind = "response" /\ q.response.status \in ErrorStatuses

\* C3: every upstream error classification maps to its own HTTP status:
\* 401 to 401, 404 to 404, 429 to 429, the others to 502.
C3_ClassificationToStatus ==
  \A r \in Reqs :
    (Done(r) /\ UpstreamFailed(req[r])) => req[r].resp.status = StatusFor(req[r].response)

\* the Authorization headers that carry no well-formed bearer token
BadHeaders == {None} \cup MalformedHeaders

\* C4 as stated: every GET /spotify/analysis/{track_id} request (admitted by
\* the rate limiter, for a valid track id) whose bearer token is absent,
\* malformed or expired ends with 401, whatever the cache holds.
C4_BadTokenIs401 ==
  \A r \in Reqs :
    LET q == req[r]
    IN  (/\ Done(r) /\ q.endpoint = "analysis" /\ ~q.limited /\ q.path \in ValidPaths
         /\ q.authorization \in BadHeaders \cup {Some(Bearer(ExpiredToken))})
          => q.resp.status = 401

\* C4 amended: an admitted request whose bearer token is absent or malformed
\* ends with 401 before any cache or upstream call, whatever the cache holds
\* and whatever the track id; an expired well-formed token is only found
\* out by the upstream call, so a request carrying it that hits the cache
\* is answered 200.
C4_AbsentOrMalformedIs401 ==
  \A r \in Reqs :
    LET q == req[r]
    IN  /\ (/\ Done(r) /\ q.endpoint = "analysis" /\ ~q.limited /\ q.path # <<>>
            /\ q.authorization \in BadHeaders)
             => (q.resp.status = 401 /\ q.log = <<>>)
        /\ (/\ Done(r) /\ q.authorization = Some(Bearer(ExpiredToken))
            /\ q.cached # None)
             => q.resp.status = 200

\* a malformed token sent for a track that is cached is answered 401
C4_Witness ==
  \E r \in Reqs :
    /\ Done(r) /\ req[r].endpoint = "analysis" /\ ~req[r].limited
    /\ req[r].authorization \in MalformedHeaders
    /\ req[r].path = IdA /\ Matching(analysis_cache, IdA) # {}
    /\ req[r].resp.status = 401

\* C5: every track_id path value that fails validation, sent with a
\* well-formed token (and admitted by the rate limiter), ends with 400 on
\* both endpoints.
C5_InvalidTrackIs400 ==
  \A r \in Reqs :
    LET q == req[r]
    IN  (/\ Done(r) /\ ~q.limited /\ q.path \in InvalidPaths
         /\ q.authorization \in WellFormedHeaders)
          => q.resp.status = 400

\* C6: a request whose track id fails validation is over at the Validate
\* step: the step that takes it in answers it, no cache read or write and no
\* upstream call is made for it, and the cache is left as it was.
C6_InvalidIdNoIO ==
  [][\A r \in Reqs :
       (req'[r] # req[r] /\ req'[r].path \in InvalidPaths) =>
         /\ req'[r].pc = "done"
         /\ req'[r].log = <<>>
         /\ analysis_cache' = analysis_cache]_vars

\* an invalid id, sent with a well-formed token while the cache holds an
\* entry, has been answered 400 without any I/O
C6_Witness ==
  \E r \in Reqs :
    /\ Done(r) /\ ~req[r].limited /\ req[r].path \in InvalidPaths
    /\ req[r].authorization \in WellFormedHeaders
    /\ req[r].resp.status = 400 /\ req[r].log = <<>>
    /\ analysis_cache # {}

\* C7: no failure of the cache store reaches the requester. A request whose
\* get_cached_analysis met a store failure goes on as on a miss (nothing
\* cached, the next call is the upstream audio-analysis fetch); a request
\* whose cache_analysis met a store failure is still answered 200 with the
\* transformed result; neither call ends with an exception.
C7_CacheFailuresAbsorbed ==
  \A r \in Reqs :
    LET q == req[r]
    IN  /\ q.readFailed =>
             /\ q.cached = None
             /\ Len(q.log) >= 2 /\ q.log[2] = "upstream.audio-analysis"
        /\ q.writeFailed =>
             /\ Done(r) /\ q.resp.status = 200 /\ q.resp.body = q.processed
        /\ \A fails \in BOOLEAN :
             /\ \A res \in get_cached_analysis(analysis_cache, q.track_id, fails) :
                  ~res.raised
             /\ q.processed # None =>
                  ~cache_analysis(analysis_cache, q.track_id,
                                  model_dump(q.processed[1]), q.cached_at, fails).raised

\* a request that met a store failure on the read and on the write has
\* been answered 200 with the transformed result
C7_Witness ==
  \E r \in Reqs :
    /\ Done(r) /\ req[r].readFailed /\ req[r].writeFailed
    /\ req[r].resp.status = 200 /\ req[r].resp.body = req[r].processed
    /\ req[r].processed # None

\* the request in slot r leaves the CacheWrite step with the store updated
WriteStep(r) ==
  req[r].pc = "CacheWrite" /\ req'[r].pc = "done" /\ ~req'[r].writeFailed

\* C8 as stated: once a request for a track has completed with a successful
\* cache write, every request for the track that arrives later and looks the
\* cache up before that entry expires, without a store failure, is a hit: no
\* upstream call, and the result is the one the completed request returned.
C8_LaterRequestsEqualFirst ==
  [][\A r \in Reqs :
       (/\ LookupStep(r) /\ ~req'[r].readFailed
        /\ req[r].prior # {}
        /\ \A e \in req[r].prior : now < e.cached_at + CacheTTL)
         => \A e \in req[r].prior :
              /\ req'[r].pc = "done"
              /\ req'[r].log = <<"cache.find_one">>
              /\ req'[r].resp = OkResponse(AnalysisResponse(e.analysis).value)]_vars

\* C8 amended: a lookup made without a store failure before the entry of the
\* latest successful cache write for the track expires is a hit: no upstream
\* call, and the result equals the one returned by the request that made
\* that latest write (a concurrent miss may have written after the first
\* request did).
C8_LaterRequestsEqualLatestWrite ==
  [][\A r \in Reqs :
       /\ (/\ LookupStep(r) /\ ~req'[r].readFailed
           /\ \E e \in Matching(lastPut, req[r].track_id) :
                now < e.cached_at + CacheTTL)
            => \A e \in Matching(lastPut, req[r].track_id) :
                 /\ req'[r].pc = "done"
                 /\ req'[r].log = <<"cache.find_one">>
                 /\ req'[r].resp = OkResponse(AnalysisResponse(e.analysis).value)
       /\ WriteStep(r)
            => /\ Matching(lastPut', req[r].track_id) # {}
               /\ \A e \in Matching(lastPut', req[r].track_id) :
                    req'[r].resp = OkResponse(AnalysisResponse(e.analysis).value)]_vars

\* a request was answered from the cache, without an upstream call, with the
\* result another request returned when it wrote over an earlier, different
\* entry
C8_Witness ==
  \E r, s \in Reqs :
    /\ r # s /\ Done(r) /\ Done(s)
    /\ req[r].cached # None /\ req[r].log = <<"cache.find_one">>
    /\ req[r].resp.status = 200 /\ req[r].resp = req[s].resp
    /\ req[s].processed # None /\ ~req[s].writeFailed
    /\ \E d \in req[s].replaced : d.analysis # model_dump(req[s].processed[1])
    /\ \E e \in Matching(lastPut, req[r].track_id) : now < e.cached_at + CacheTTL

\* C9: cache round trip. While the clock is strictly before cached_at + TTL
\* of the last successful cache_analysis(id, v), get_cached_analysis(id)
\* without a store failure returns v and nothing else: the entry is not
\* evicted early.
C9_RoundTrip ==
  \A e \in lastPut :
    now < e.cached_at + CacheTTL =>
      get_cached_analysis(analysis_cache, e.track_id, FALSE) = {Return(Some(e.analysis))}

\* a request has read back, before its expiry and after the TTL monitor had
\* something to remove, the value the last write stored
C9_Witness ==
  \E r \in Reqs : \E e \in lastPut :
    /\ Done(r) /\ req[r].track_id = e.track_id /\ ~req[r].readFailed
    /\ req[r].cached = Some(e.analysis)
    /\ now < e.cached_at + CacheTTL
    /\ now > 0

\* C10: cache upsert. A successful cache_analysis(id, v2) leaves exactly one
\* document for id, carrying v2 alone and the cached_at of this write, so
\* that get_cached_analysis(id) returns v2 and the TTL monitor keeps the
\* entry at every time before this write's cached_at + TTL, whatever entry
\* for id was there before.
C10_UpsertReplaces ==
  [][\A r \in Reqs :
       WriteStep(r) =>
         LET id == req[r].track_id
             v2 == model_dump(req[r].processed[1])
             d2 == Doc(id, v2, req[r].cached_at)
         IN  /\ Matching(analysis_cache', id) = {d2}
             /\ get_cached_analysis(analysis_cache', id, FALSE) = {Return(Some(v2))}
             /\ \A t \in 0..MaxTime :
                  t < req[r].cached_at + CacheTTL =>
                    Matching(ttl_pass(analysis_cache', t), id) = {d2}
             /\ {d \in analysis_cache' : d.track_id # id}
                  = {d \in analysis_cache : d.track_id # id}]_vars

\* a write has replaced an entry with another value and an older cached_at:
\* the old entry would be expired by now, the new one is in the cache
C10_Witness ==
  \E r \in Reqs :
    LET q == req[r]
    IN  /\ Done(r) /\ q.processed # None /\ ~q.writeFailed
        /\ \E d \in q.replaced :
             /\ d.analysis # model_dump(q.processed[1])
             /\ d.cached_at < q.cached_at
             /\ Expired(d, now)
        /\ Matching(analysis_cache, q.track_id)
             = {Doc(q.track_id, model_dump(q.processed[1]), q.cached_at)}
        /\ ~Expired(Doc(q.track_id, model_dump(q.processed[1]), q.cached_at), now)

\* C11: in every reachable state, under any interleaving of the cache writes
\* of concurrent requests, the cache holds at most one entry per track
\* identifier.
C11_OneEntryPerTrack ==
  \A d1, d2 \in analysis_cache : d1.track_id = d2.track_id => d1 = d2

\* two requests that both found no document for the track in the query phase
\* of their write (no time has passed, so none was removed in between) have
\* both finished their write, and the cache holds one document
C11_Witness ==
  \E r, s \in Reqs :
    /\ r # s /\ Done(r) /\ Done(s) /\ now = 0
    /\ req[r].track_id = req[s].track_id
    /\ req[r].processed # None /\ req[s].processed # None
    /\ req[r].processed # req[s].processed
    /\ ~req[r].readFailed /\ ~req[s].readFailed
    /\ req[r].replaced = {} /\ req[s].replaced = {}
    /\ ~req[r].writeFailed /\ ~req[s].writeFailed
    /\ Cardinality(analysis_cache) = 1

\* the request in slot r went through a miss, both upstream calls and the
\* transform
Transformed(r) ==
  /\ Done(r) /\ req[r].cached = None /\ req[r].processed # None

\* C12: concurrent requests for the same uncached track are not
\* deduplicated. A lookup that finds no entry goes on to the upstream calls
\* whatever the other requests are doing; every request that got its two
\* payloads makes the cache write and returns its result with 200 under
\* every interleaving; and once two such requests have finished, the cache
\* holds, until it expires, exactly one entry for the track: the one of the
\* last write, equal to the transform of upstream payloads.
C12_NoDedupLastWriteWins ==
  [][\A r \in Reqs :
       /\ (LookupStep(r) /\ Matching(analysis_cache, req[r].track_id) = {})
            => /\ req'[r].pc = "FetchAnalysis"
               /\ req'[r].log = <<"cache.find_one", "upstream.audio-analysis">>
       /\ Transformed(r)' =>
            /\ req'[r].resp = OkResponse(req'[r].processed[1])
            /\ req'[r].log = <<"cache.find_one", "upstream.audio-analysis",
                               "upstream.audio-features", "cache.update_one">>
       /\ \A s \in Reqs \ {r} :
            (/\ Transformed(r)' /\ Transformed(s)'
             /\ req'[r].track_id = req'[s].track_id
             /\ ~req'[r].writeFailed \/ ~req'[s].writeFailed
             /\ \E e \in Matching(lastPut', req'[r].track_id) :
                  now' < e.cached_at + CacheTTL)
              => /\ Matching(analysis_cache', req'[r].track_id)
                      = Matching(lastPut', req'[r].track_id)
                 /\ Cardinality(Matching(analysis_cache', req'[r].track_id)) = 1
                 /\ \A e \in Matching(analysis_cache', req'[r].track_id) :
                      \E a \in ConcTraffic.analyses, f \in ConcTraffic.features :
                        e.analysis =
                          model_dump(process_analysis(e.track_id, a, Some(f)).value)]_vars

\* two requests in flight together both missed, both fetched and both
\* wrote; both were answered 200 with different results, and the cache
\* holds the entry of the one that wrote last, over the other's
C12_Witness ==
  \E r, s \in Reqs :
    /\ r # s /\ Transformed(r) /\ Transformed(s) /\ now = 0
    /\ ~req[r].readFailed /\ ~req[s].readFailed
    /\ req[r].resp.status = 200 /\ req[s].resp.status = 200
    /\ req[r].resp # req[s].resp
    /\ req[s].replaced = {Doc(req[r].track_id, model_dump(req[r].processed[1]),
                              req[r].cached_at)}
    /\ analysis_cache = {Doc(req[s].track_id, model_dump(req[s].processed[1]),
                             req[s].cached_at)}

\* the audio-analysis call of the request in slot r returned without a
\* payload: None (upstream 204) or an empty document
NoAnalysisPayload(q) ==
  /\ q.endpoint = "analysis" /\ Len(q.log) >= 3
  /\ q.log[3] = "upstream.audio-features"
  /\ q.analysis = None \/ EmptyAnalysis(q.analysis[1])

\* C13: on a cache miss, when the audio-analysis call returns no payload, the
\* request ends with NotFound (404) whatever the audio-features call gives,
\* and nothing is written to the cache.
C13_NoAnalysisIs404 ==
  \A r \in Reqs :
    (Done(r) /\ NoAnalysisPayload(req[r])) =>
      /\ req[r].resp.status = 404
      /\ req[r].resp.detail = "Track analysis not found"
      /\ Len(req[r].log) = 3

\* the request in slot r gets upstream's answer to its audio-analysis call
\* in this step, and the answer is HTTP 401
AnalysisAnswered401(r) ==
  /\ req[r].pc = "FetchAnalysis" /\ req'[r] # req[r]
  /\ req'[r].response.kind = "response" /\ req'[r].response.status = 401

\* C14: on a cache miss, when upstream answers 401 to the audio-analysis
\* call, the request ends there with AuthExpired (401): the audio-features
\* call is not issued, so its outcome cannot replace the 401, and nothing is
\* written to the cache.
C14_Analysis401IsFinal ==
  [][\A r \in Reqs :
       AnalysisAnswered401(r) =>
         /\ req'[r].pc = "done"
         /\ req'[r].resp = ErrorResponse(SpotifyAuthError("Token expired. Please re-authenticate."))
         /\ req'[r].resp.status = 401
         /\ req'[r].log = <<"cache.find_one", "upstream.audio-analysis">>
         /\ analysis_cache' = analysis_cache]_vars

\* a request whose audio-analysis call was answered 401 has ended with 401
\* after two I/O calls
C14_Witness ==
  \E r \in Reqs :
    /\ Done(r) /\ req[r].response = Response(401, None)
    /\ req[r].log = <<"cache.find_one", "upstream.audio-analysis">>
    /\ req[r].resp.status = 401

\* the call process_analysis(track_id, analysis, features) the request in
\* slot r has made
Processed(q) ==
  process_analysis(q.track_id, q.analysis[1], q.features)
\* the request in slot r has called process_analysis
CalledTransform(q) ==
  /\ q.endpoint = "analysis" /\ q.analysis # None /\ ~EmptyAnalysis(q.analysis[1])
  /\ q.features # None /\ q.pc \in {"CacheWrite", "done"}

\* C15: process_analysis never raises, whatever nested fields of the raw
\* payloads are missing or malformed: the request that called it goes on
\* with an AnalysisResult and is answered 200.
C15_TransformNeverRaises ==
  \A r \in Reqs :
    CalledTransform(req[r]) =>
      /\ ~Processed(req[r]).raised
      /\ req[r].processed # None
      /\ Done(r) => req[r].resp.status = 200

\* the raw beats whose confidence is present and strictly above 0.3, in
\* their order
RECURSIVE ConfidentBeats(_)
ConfidentBeats(raw) ==
  IF raw = <<>> THEN <<>>
  ELSE IF Head(raw).confidence # None /\ Head(raw).confidence[1] > BeatThreshold
       THEN <<Head(raw)>> \o ConfidentBeats(Tail(raw))
       ELSE ConfidentBeats(Tail(raw))

\* C16: for every raw beat list, the beats of the transformed result are
\* exactly the raw beats whose confidence is strictly greater than 0.3 (one
\* at exactly 0.3 or without confidence is dropped), in their order, so
\* that there are never more of them than raw beats.
C16_BeatsFilter ==
  \A r \in Reqs :
    LET q == req[r]
    IN  (CalledTransform(q) /\ q.analysis[1].beats # None
         /\ q.analysis[1].beats[1] \in BeatLists) =>
          LET raw == q.analysis[1].beats[1]
              want == ConfidentBeats(raw)
          IN  /\ q.processed # None
              /\ Len(q.processed[1].beats) <= Len(raw)
              /\ q.processed[1].beats =
                   [i \in 1..Len(want) |->
                      [start |-> want[i].start[1], duration |-> want[i].duration[1],
                       confidence |-> want[i].confidence[1]]]

\* a list of three beats, one without confidence or at exactly 0.3 between
\* two above it, has come out as the two, in order
C16_Witness ==
  \E r \in Reqs :
    LET q == req[r]
    IN  /\ Done(r) /\ CalledTransform(q) /\ q.analysis[1].beats # None
        /\ Len(q.analysis[1].beats[1]) = 3
        /\ q.analysis[1].beats[1][1].confidence = Some(BeatThreshold + 1)
        /\ q.analysis[1].beats[1][2].confidence = Some(BeatThreshold)
        /\ q.analysis[1].beats[1][3].confidence = Some(9)
        /\ q.resp.status = 200
        /\ Len(q.resp.body[1].beats) = 2
        /\ q.resp.body[1].beats[1].start = 1 /\ q.resp.body[1].beats[2].start = 3

\* C17: for every raw list of n well-formed segments the transformed result
\* has exactly min(n, 2000) segments, the first min(n, 2000) raw ones in
\* their order; so every AnalysisResult returned to a client or stored in
\* the cache has at most 2000 segments.
C17_SegmentCap ==
  /\ \A r \in Reqs :
       LET q == req[r]
       IN  /\ (CalledTransform(q) /\ q.analysis[1].segments # None
               /\ q.analysis[1].segments[1] \in SegmentLists) =>
                LET raw == q.analysis[1].segments[1]
                    n == IF Len(raw) < 2000 THEN Len(raw) ELSE 2000
                IN  /\ q.processed # None
                    /\ Len(q.processed[1].segments) = n
                    /\ \A i \in 1..n :
                         /\ q.processed[1].segments[i].start = raw[i].start[1]
                         /\ q.processed[1].segments[i].duration = raw[i].duration[1]
           /\ q.resp.body # None => Len(q.resp.body[1].segments) <= 2000
  /\ \A d \in analysis_cache : Len(d.analysis.segments) <= 2000

\* a raw list of 2001 segments has come out as its first 2000, returned
\* with 200 and stored in the cache
C17_Witness ==
  \E r \in Reqs :
    LET q == req[r]
    IN  /\ Done(r) /\ CalledTransform(q) /\ q.analysis[1].segments # None
        /\ Len(q.analysis[1].segments[1]) = 2001
        /\ q.resp.status = 200
        /\ Len(q.resp.body[1].segments) = 2000
        /\ q.resp.body[1].segments[2000].start = 2000
        /\ \E d \in analysis_cache : Len(d.analysis.segments) = 2000

\* C18: top-level defaulting of process_analysis. duration is the analysis'
\* track.duration, or 0 when missing; tempo is the features' tempo when
\* present, otherwise the analysis' track.tempo, otherwise 120; energy is
\* the features' energy, or 0.5 when missing.
C18_TopLevelDefaults ==
  \A r \in Reqs :
    LET q == req[r]
    IN  (CalledTransform(q) /\ q.analysis[1] \in WellFormedAnalyses) =>
          LET track == q.analysis[1].track
              f == q.features[1]
              p == q.processed[1]
          IN  /\ q.processed # None
              /\ p.duration = IF track # None /\ track[1].duration # None
                              THEN track[1].duration[1] ELSE 0
              /\ p.tempo = IF f.tempo # None THEN f.tempo[1]
                           ELSE IF track # None /\ track[1].tempo # None
                                THEN track[1].tempo[1] ELSE 120
              /\ p.energy = IF f.energy # None THEN f.energy[1] ELSE 5
              /\ p.track_id = q.track_id

\* an analysis without track.duration and with a track tempo, transformed
\* with features that carry neither tempo nor energy, has given duration 0,
\* the track's tempo and energy 0.5
C18_Witness ==
  \E r \in Reqs :
    LET q == req[r]
    IN  /\ Done(r) /\ CalledTransform(q)
        /\ q.analysis[1].track = Some([duration |-> None, tempo |-> Some(100)])
        /\ q.features = Some(FeaturesBare)
        /\ q.resp.status = 200
        /\ q.resp.body[1].duration = 0
        /\ q.resp.body[1].tempo = 100
        /\ q.resp.body[1].energy = 5

IsTrackIdCore(p, i, j) ==
  /\ i <= j
  /\ \A k \in 1..(i - 1) : p[k].c \in {" ", "\n"}
  /\ \A k \in (j + 1)..Len(p) : p[k].c \in {" ", "\n"}
  /\ \A k \in i..j : p[k].c \in Alnum
  /\ StrLen(SubSeq(p, i, j)) = 22

\* C20: a track id validator accepts exactly the inputs that, with the
\* surrounding whitespace trimmed, are 22 characters over [A-Za-z0-9], and
\* returns that trimmed value; every other input fails. validate_track_id,
\* validate_track_id_param and TrackIdParam.validate_track_id accept the
\* same inputs and return the same value.
C20_TrackIdValidators ==
  \A r \in Reqs :
    LET q == req[r]
        p == q.path
        cores == {c \in (1..Len(p)) \X (1..Len(p)) : IsTrackIdCore(p, c[1], c[2])}
    IN  (Done(r) /\ q.validator # "") =>
          /\ (cores # {}) <=> (q.resp = NoResponse)
          /\ \A c \in cores : q.track_id = SubSeq(p, c[1], c[2])
          /\ \A v \in Validators :
               /\ ValidatorCall(v, p).raised <=> (cores = {})
               /\ \A c \in cores : ValidatorCall(v, p).value = SubSeq(p, c[1], c[2])

\* validate_track_id has accepted a valid id given with whitespace before
\* and after it, and has returned the id without the whitespace
C20_Witness ==
  \E r \in Reqs :
    /\ Done(r) /\ req[r].validator = "validate_track_id"
    /\ req[r].path = <<Run(" ", 1), Run("Z", 10), Run("7", 1), Run("b", 11), Run("\n", 1)>>
    /\ req[r].track_id = <<Run("Z", 10), Run("7", 1), Run("b", 11)>>
    /\ req[r].resp = NoResponse

\* the token of a "Bearer " header
BearerToken(h) == SubSeq(h, Len(BearerPrefix) + 1, Len(h))
\* the header is "Bearer " followed by a token
IsBearer(authorization) ==
  /\ authorization # None /\ Len(authorization[1]) >= Len(BearerPrefix)
  /\ SubSeq(authorization[1], 1, Len(BearerPrefix)) = BearerPrefix
\* the token is 50 to 500 characters, every one of them in [A-Za-z0-9_-]
GoodToken(token) ==
  /\ StrLen(token) >= 50 /\ StrLen(token) <= 500
  /\ \A i \in 1..Len(token) : token[i].c \in Alnum \cup {"_", "-"}

\* C21: validate_spotify_token_format(token) is true exactly when the token
\* is 50 to 500 characters long and every character is in [A-Za-z0-9_-]; a
\* token with any other character anywhere, a trailing newline included,
\* is rejected, and get_spotify_token answers 401 for it.
C21_TokenFormat ==
  \A r \in Reqs :
    LET q == req[r]
    IN  (Done(r) /\ IsBearer(q.authorization)) =>
          LET token == BearerToken(q.authorization[1])
          IN  /\ validate_spotify_token_format(token) <=> GoodToken(token)
              /\ ~GoodToken(token) => q.resp.status = 401
              /\ GoodToken(token) => (q.resp = NoResponse /\ q.token = token)

\* the outcome classes of the upstream client
ClientOutcome(kind, payload, retry_after) ==
  [kind |-> kind, payload |-> payload, retry_after |-> retry_after]
\* the class of what _make_request returned or raised: the exceptions of
\* the 502 classes are told apart by their detail
OutcomeOf(res) ==
  IF ~res.raised THEN ClientOutcome("Success", res.value, None)
  ELSE LET e == res.exc[1]
       IN  IF e.type = "SpotifyAuthError" THEN ClientOutcome("AuthExpired", None, None)
           ELSE IF e.type = "NotFoundError" THEN ClientOutcome("NotFound", None, None)
           ELSE IF e.type # "SpotifyAPIError" THEN ClientOutcome("Unclassified", None, None)
           ELSE IF e.detail = "Rate limited by Spotify. Try again shortly."
                THEN ClientOutcome("RateLimited", None, e.retry_after)
           ELSE IF e.detail = "Spotify is not responding. Try again."
                THEN ClientOutcome("UpstreamTimeout", None, None)
           ELSE IF e.detail = "Request failed"
                THEN ClientOutcome("UpstreamProtocolError", None, None)
           ELSE ClientOutcome("UpstreamUnavailable", None, None)
\* the seconds a Retry-After header stands for, 60 when absent or no number
RetryAfterSeconds(h) == IF h = Some("30") THEN 30 ELSE 60
\* the outcome the mapping gives a transport result
MappedOutcome(t) ==
  IF t.kind = "timeout" THEN ClientOutcome("UpstreamTimeout", None, None)
  ELSE IF t.kind = "neterror" THEN ClientOutcome("UpstreamUnavailable", None, None)
  ELSE IF t.status = 204 THEN ClientOutcome("Success", None, None)
  ELSE IF t.status = 401 THEN ClientOutcome("AuthExpired", None, None)
  ELSE IF t.status = 404 THEN ClientOutcome("NotFound", None, None)
  ELSE IF t.status = 429
       THEN ClientOutcome("RateLimited", None, Some(RetryAfterSeconds(t.retry_after)))
  ELSE IF t.status \in 500..599 THEN ClientOutcome("UpstreamUnavailable", None, None)
  ELSE IF t.status \in 400..499 THEN ClientOutcome("UpstreamProtocolError", None, None)
  ELSE ClientOutcome("Success", t.json, None)

\* C22: the upstream client's outcome is a fixed total function of the
\* transport result: 204 Success without payload, 401 AuthExpired, 404
\* NotFound, 429 RateLimited carrying the Retry-After value (60 when
\* absent or unparseable), 5xx UpstreamUnavailable, other 4xx
\* UpstreamProtocolError, timeout UpstreamTimeout, other network failure
\* UpstreamUnavailable, every remaining status Success with the payload.
C22_OutcomeMapping ==
  \A r \in Reqs :
    req[r].response # NoTransport =>
      OutcomeOf(make_request(req[r].response)) = MappedOutcome(req[r].response)

\* the requests of the log that went to the given upstream endpoint
Calls(log, call) == SelectSeq(log, LAMBDA c : c = call)
\* the positions of the log at which the given call stands
Positions(log, call) == {i \in 1..Len(log) : log[i] = call}

\* C23: the upstream client never retries: a GET /spotify/analysis request
\* issues at most one audio-analysis request and at most one audio-features
\* request whatever their outcomes, the analysis request first.
C23_NoRetry ==
  \A r \in Reqs :
    LET log == req[r].log
    IN  /\ Len(Calls(log, "upstream.audio-analysis")) <= 1
        /\ Len(Calls(log, "upstream.audio-features")) <= 1
        /\ req[r].endpoint = "analysis" =>
             \A j \in Positions(log, "upstream.audio-features") :
               \E i \in Positions(log, "upstream.audio-analysis") : i < j
C23_Witness ==
  \E r \in Reqs :
    /\ Done(r) /\ req[r].endpoint = "analysis"
    /\ req[r].response.status = 503 /\ req[r].resp.status = 502
    /\ req[r].log = <<"cache.find_one", "upstream.audio-analysis">>

\* the request's last upstream call returned a body response.json() could
\* not decode
DecodeFailed(q) ==
  /\ q.response.kind = "response"
  /\ make_request(q.response).raised /\ ~make_request(q.response).exc[1].http
\* the request called process_analysis and the call raised
TransformRaised(q) ==
  /\ q.endpoint = "analysis" /\ q.pc = "done"
  /\ Positions(q.log, "upstream.audio-features") # {}
  /\ q.response.kind = "response" /\ ~make_request(q.response).raised
  /\ q.analysis # None /\ ~EmptyAnalysis(q.analysis[1])
  /\ process_analysis(q.track_id, q.analysis[1], q.features).raised
InternalErrorResponse ==
  [status |-> 500, detail |-> "An unexpected error occurred", body |-> None]

\* C24: a failure inside request handling that is none of the classified
\* errors (an undecodable upstream body, an exception raised while
\* transforming a malformed payload) ends as a 500 response whose body is
\* exactly {"detail": "An unexpected error occurred"}; the exception's type
\* and message do not appear in the response.
C24_UnclassifiedIs500 ==
  \A r \in Reqs :
    (Done(r) /\ (DecodeFailed(req[r]) \/ TransformRaised(req[r]))) =>
      req[r].resp = InternalErrorResponse
C24_Witness ==
  \E r \in Reqs :
    /\ Done(r) /\ TransformRaised(req[r])
    /\ ~process_analysis(req[r].track_id, req[r].analysis[1], req[r].features).exc[1].http
    /\ req[r].resp = InternalErrorResponse

\* the steps of get_analysis that await a call
AwaitingSteps == {"CacheLookup", "FetchAnalysis", "FetchFeatures", "CacheWrite"}

\* C25: every GET /spotify/analysis request reaches a terminal outcome (a
\* 200 result or an error response): when every upstream call and every
\* cache-store call ends, no request stays forever in the CacheLookup,
\* Fetch, Transform or CacheWrite step.
C25_EveryRequestEnds ==
  \A r \in Reqs :
    (req[r].endpoint = "analysis" /\ req[r].pc \in AwaitingSteps)
      ~> (Done(r) /\ req[r].resp # NoResponse)
C25_Witness ==
  \E r \in Reqs :
    /\ Done(r) /\ req[r].resp.status = 200
    /\ req[r].log = <<"cache.find_one", "upstream.audio-analysis",
                      "upstream.audio-features", "cache.update_one">>

\* the requests of client `key` accepted during the 60 seconds before the
\* instant x: those accepted at a time t with x - 60 < t <= x
AcceptedInWindow(key, x) ==
  {i \in 1..Len(events) :
     /\ events[i].op = "accepted" /\ events[i].key = key
     /\ events[i].at <= x /\ x - events[i].at < 60}
\* the timestamps the store holds for the key within the window at time t
Counted(store, key, t) ==
  IF key \in DOMAIN store
  THEN SelectSeq(store[key], LAMBDA x : t - x < 60)
  ELSE <<>>

\* C26: sliding-window rate limit. For every client key and every instant
\* the requests accepted for the key during the preceding 60 seconds are at
\* most rate_limit_per_minute; a request arriving when the key already has
\* that many is rejected with 429 (Retry-After 60) and is not recorded, so
\* rejected requests do not delay the key's next acceptance.
C26_WindowBound ==
  \A key \in ClientKeys, x \in 0..now :
    Cardinality(AcceptedInWindow(key, x)) <= rate_limit_per_minute
C26_RejectNotRecorded ==
  now' = now =>
    \E r \in Reqs :
      LET key == req'[r].client
      IN  /\ key \in ClientKeys /\ req'[r].pc = "done"
          /\ \A s \in Reqs \ {r} : req'[s] = req[s]
          /\ IF Cardinality(AcceptedInWindow(key, now)) >= rate_limit_per_minute
             THEN /\ req'[r].limited
                  /\ req'[r].resp = ErrorResponse(RateLimitError)
                  /\ req'[r].resp.status = 429
                  /\ RateLimitError.retry_after = Some(60)
                  /\ events' = events
                  /\ \A k \in ClientKeys :
                       Counted(rate_limit_store', k, now) = Counted(rate_limit_store, k, now)
             ELSE /\ ~req'[r].limited
                  /\ req'[r].resp = NoResponse
                  /\ events' = Append(events, Event("accepted", key, now))
C26_SlidingWindow == [](C26_WindowBound) /\ [][C26_RejectNotRecorded]_vars
C26_Witness ==
  \E r \in Reqs :
    /\ Done(r) /\ req[r].limited /\ req[r].resp.status = 429
    /\ Cardinality(AcceptedInWindow(req[r].client, now)) = rate_limit_per_minute
    /\ \E i \in 1..Len(events) : events[i].key = req[r].client /\ now - events[i].at >= 60

\* the positions of the history that hold an event of the kind
EventsOf(op) == {i \in 1..Len(events) : events[i].op = op}
\* every token exchange is for a state issued before, and no state has two
SingleUse ==
  \A i \in EventsOf("exchanged") :
    /\ \E j \in EventsOf("issued") : j < i /\ events[j].key = events[i].key
    /\ \A k \in EventsOf("exchanged") : events[k].key = events[i].key => k = i
\* while a callback awaits the exchange its state is out of the store
RemovedBeforeExchange ==
  \A r \in Reqs :
    req[r].pc = "Exchange" => req[r].state[1] \notin DOMAIN pending_states
\* a step that starts an exchange takes a well-formed state out of the store
ExchangeOnlyIfPending ==
  (events' # events /\ events'[Len(events')].op = "exchanged") =>
    LET s == events'[Len(events')].key
    IN  /\ AllIn(s, Alnum \cup {"_", "-"}) /\ StrLen(s) >= 16 /\ StrLen(s) <= 64
        /\ s \in DOMAIN pending_states
        /\ s \notin DOMAIN pending_states'
\* the callback in slot r was answered without a token exchange
Refused(r) ==
  /\ Done(r) /\ req[r].endpoint = "callback"
  /\ req[r].log = <<>> /\ req[r].response = NoTransport

\* C27 as stated: OAuth states are single-use: /auth/callback exchanges
\* the code only when its state is well-formed and in the pending store,
\* removes the state before the exchange, so each issued state leads to at
\* most one exchange; every other callback redirects with
\* error=invalid_state without calling upstream.
C27_SingleUseElseInvalidState ==
  /\ [](/\ SingleUse /\ RemovedBeforeExchange
        /\ \A r \in Reqs : Refused(r) => req[r].resp = Redirect("invalid_state"))
  /\ [][ExchangeOnlyIfPending]_vars

\* C27, amended: as above, and every other callback is answered without
\* an upstream call: 422 for a code of a wrong length, else a redirect
\* with error=auth_denied when it carries an error, else error=missing_code
\* when it carries no code, else error=invalid_state.
C27_SingleUseElseRefused ==
  /\ [](/\ SingleUse /\ RemovedBeforeExchange
        /\ \A r \in Reqs :
             Refused(r) =>
               req[r].resp =
                 IF req[r].code # None /\ StrLen(req[r].code[1]) \notin 10..500
                 THEN ValidationErrorResponse
                 ELSE IF req[r].error # None THEN Redirect("auth_denied")
                 ELSE IF req[r].code = None THEN Redirect("missing_code")
                 ELSE Redirect("invalid_state"))
  /\ [][ExchangeOnlyIfPending]_vars
C27_Witness ==
  \E r \in Reqs :
    /\ Refused(r) /\ req[r].resp = Redirect("invalid_state")
    /\ req[r].state # None
    /\ \E i \in EventsOf("exchanged") : events[i].key = req[r].state[1]

\* C29: a pending OAuth state expires after 10 minutes: /auth/callback
\* never makes a token exchange for a state that /auth/login issued more
\* than 600 seconds earlier, with or without a login in between.
C29_StateExpires ==
  \A i \in EventsOf("exchanged") :
    \E j \in EventsOf("issued") :
      /\ events[j].key = events[i].key
      /\ events[i].at - events[j].at <= 600

\* the request has called cache_analysis
Stored(q) == Positions(q.log, "cache.update_one") # {}
\* the documents of the step's cache that were not there before: the
\* entries the step created or replaced
Written == analysis_cache' \ analysis_cache

\* C28: a cache entry is created or replaced only by a request that
\* completed both upstream fetches and the transform: a request that ends
\* in an error and a request answered from the cache leave the cache
\* contents, every cached_at included, as they were.
C28_ErrorsAndHitsStoreNothing ==
  \A r \in Reqs :
    LET q == req[r]
    IN  /\ (Done(r) /\ (q.resp.status # 200 \/ q.cached # None)) => ~Stored(q)
        /\ Stored(q) =>
             /\ q.analysis # None /\ q.features # None /\ q.processed # None
             /\ q.cached = None
C28_OnlyCacheWriteStores ==
  Written # {} =>
    \E r \in Reqs :
      /\ req[r].pc \in {"CacheWrite", "CacheInsert"} /\ Stored(req[r])
      /\ req'[r].pc = "done" /\ req'[r].resp.status = 200
      /\ \A s \in Reqs \ {r} : req'[s] = req[s]
      /\ Written = {Doc(req[r].track_id, model_dump(req[r].processed[1]), req[r].cached_at)}
C28_CacheFrame == [](C28_ErrorsAndHitsStoreNothing) /\ [][C28_OnlyCacheWriteStores]_vars
C28_Witness ==
  \E r \in Reqs :
    /\ Done(r) /\ req[r].resp.status = 502 /\ ~Stored(req[r])
    /\ Matching(analysis_cache, req[r].track_id) # {}
    /\ Matching(analysis_cache, req[r].track_id) = Matching(lastPut, req[r].track_id)

\* C30: in every reachable state every cache entry is self-consistent: the
\* track_id inside the stored AnalysisResult equals the key the entry is
\* stored under, so a cache hit for track t returns a result whose
\* track_id is t.
C30_EntriesSelfConsistent ==
  /\ \A d \in analysis_cache : d.analysis.track_id = d.track_id
  /\ \A r \in Reqs :
       (Done(r) /\ req[r].cached # None) =>
         /\ req[r].cached[1].track_id = req[r].track_id
         /\ req[r].resp.status = 200
         /\ req[r].resp.body[1].track_id = req[r].track_id
C30_Witness ==
  \E r \in Reqs :
    /\ Done(r) /\ req[r].cached # None /\ req[r].resp.status = 200
    /\ req[r].resp.body[1].track_id = req[r].track_id
    /\ \E d \in analysis_cache : d.track_id # req[r].track_id

====
